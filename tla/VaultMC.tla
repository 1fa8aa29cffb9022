------------------------------ MODULE VaultMC ------------------------------
EXTENDS Vault, BlobUpdate

CONSTANTS ann, secret, spoilt

\* A new account has an empty list of contacts.
MCData == Obj("contacts" :> Arr(<<>>))

Contacts == <<"contacts">>

\* A contact is added; every contact of that name is removed; and an
\* application of another mind stores something else under the same name.
Add == [op |-> "unshift", path |-> Contacts, args |-> Obj("name" :> ann)]
Drop == [op |-> "filter", path |-> Contacts,
         args |-> [field |-> "name", value |-> ann,
                   subs |-> <<[op |-> "unset", path |-> <<>>, args |-> ann]>>]]
Spoil == [op |-> "set", path |-> Contacts, args |-> spoilt]

MCUpdates == {Add, Drop, Spoil}

\* Neither the blobs nor the passwords are told apart.
MCSymmetry == Permutations(Blobs) \cup Permutations(Keys)
=============================================================================

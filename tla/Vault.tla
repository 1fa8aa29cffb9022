------------------------------- MODULE Vault -------------------------------
(***************************************************************************)
(* A blob vault account and the BlobObj objects of the applications that   *)
(* use it (BlobClient, VaultClient).                                       *)
(*                                                                         *)
(* A BlobObj comes from create, login, relogin or recoverBlob.  An update  *)
(* changes its data at once and posts an encrypted patch; requests are     *)
(* independent HTTP requests, which arrive in any order or are lost, and   *)
(* their answers too.  An ID and the key that decrypts are derived from    *)
(* one password and always change together: one value stands for both.     *)
(*                                                                         *)
(* The vault server is external.  What the client takes for granted of it: *)
(* it answers and accepts only under the account's ID, keeps patches in    *)
(* the order they arrive, numbers every change as a revision, replaces the *)
(* patches a consolidation covers and refuses one of another history, and  *)
(* drops every patch when the keys change (the new key reads none).        *)
(***************************************************************************)
EXTENDS BlobDoc

CONSTANTS
  Apply(_, _), \* what an update makes of a document, and whether it threw
  Blobs,     \* the BlobObj objects
  Keys,      \* IDs with their keys, one for each password and user name
  None,
  Updates,   \* updates the applications make
  Fields,    \* identity fields they set
  Secret,    \* a field's value (encrypted or not)
  FirstData, \* the data of a new account
  MaxChanges,\* bound: updates, identity fields and key changes
  MaxFaults  \* bound: requests and answers lost

ASSUME VaultAssumption ==
  /\ None \notin Keys \cup Fields /\ Keys \cap Fields = {}
  /\ Secret \in Scalars
  /\ MaxChanges \in Nat /\ MaxFaults \in Nat

VARIABLES
  account,  \* the server's: id, secret (its key), data, revision, patches
  origin, log, \* the data last stored whole by create or a key change, and the
            \* patches accepted since (no part of the program)
  blob,     \* the BlobObj's id, secret, typo, data, revision; id None: none
  flight,   \* its requests under way, in the order of the calls
  replies,  \* answers under way that something waits for
  fetched,  \* a login's answer under way
  changes, faults, \* bound counters
  inStep,   \* nothing went wrong and nobody else wrote since it was loaded
  ahead,    \* blobs whose data is not what their revision holds
  repeated  \* the application had such a blob consolidated
            \* (the last three: no part of the program)

vars == <<account, origin, log, blob, flight, replies, fetched, changes,
          faults, inStep, ahead, repeated>>

-----------------------------------------------------------------------------
NoBlob == [id |-> None, secret |-> None, typo |-> None, data |-> Obj(<<>>),
           revision |-> 0]
NoAccount == [id |-> None, secret |-> None, data |-> Obj(<<>>), revision |-> 0,
              patches |-> <<>>]
NoReply == [then |-> None, ok |-> FALSE]

Init ==
  /\ account = NoAccount
  /\ origin = Obj(<<>>) /\ log = <<>>
  /\ blob = [b \in Blobs |-> NoBlob]
  /\ flight = [b \in Blobs |-> <<>>]
  /\ replies = [b \in Blobs |-> <<>>]
  /\ fetched = [b \in Blobs |-> NoAccount]
  /\ changes = 0 /\ faults = 0
  /\ inStep = [b \in Blobs |-> FALSE]
  /\ ahead = {} /\ repeated = FALSE

Loaded(b) == blob[b].id # None
Unused(b) == ~Loaded(b) /\ fetched[b] = NoAccount /\ flight[b] = <<>>
               /\ replies[b] = <<>>

\* A request: `id' is the ID it is signed for, `then' what waits for its answer.
Post(kind, b, then) ==
  [kind |-> kind, id |-> b.id, then |-> then, data |-> b.data,
   revision |-> b.revision, newId |-> b.id, secret |-> b.id, update |-> None]

Patch(b, u, then) ==
  [Post("patch", b, then) EXCEPT !.update = u, !.data = None, !.revision = 0]

Sends(b, p) == flight' = [flight EXCEPT ![b] = Append(@, p)]

-----------------------------------------------------------------------------
(* The applications' calls.                                                *)

\* The blob that create makes, the application's with the answer.
NewBlob(k) == [NoBlob EXCEPT !.id = k, !.secret = k, !.data = FirstData]

\* register, with the keys derived from the password.
Register(b, k) ==
  /\ Unused(b) /\ account.id = None
  /\ Sends(b, Post("create", NewBlob(k), k))
  /\ UNCHANGED <<account, origin, log, blob, replies, fetched, changes, faults,
                 inStep, ahead, repeated>>

\* init: the server answers with the account as it is.
Fetch(b) ==
  /\ Unused(b) /\ account.id # None
  /\ fetched' = [fetched EXCEPT ![b] = account]
  /\ UNCHANGED <<account, origin, log, blob, flight, replies, changes, faults,
                 inStep, ahead, repeated>>

\* login, and relogin with the keys themselves.  Under an ID that is not the
\* account's nothing is found, and nothing changes here.
Login(b, k) == k = account.id /\ Fetch(b)

\* recoverBlob: signed with the master key, it needs no password.
Recover(b) == Fetch(b)

\* Updates one after the other, up to the first that throws.
Patched(result, u) == IF result.ok THEN Apply(result.doc, u) ELSE result
Replayed(d, updates) ==
  LET after[n \in 0..Len(updates)] ==
        IF n = 0 THEN Done(d) ELSE Patched(after[n - 1], updates[n])
  IN after[Len(updates)]

\* decrypt, then the patches up to the first that throws.
Decrypted(a) == Replayed(a.data, a.patches)

\* Mutation: applying a patch leaves the revision as it is.
NoneApplied(a) == 0

\* How many of them were applied.
Applied(a) ==
  LET Ok(n) == Replayed(a.data, SubSeq(a.patches, 1, n)).ok
  IN CHOOSE n \in 0..Len(a.patches) :
       Ok(n) /\ (n = Len(a.patches) \/ ~Ok(n + 1))

Consolidation(b) == Post("consolidate", b, None)

\* init on the answer; patches that all apply are posted as a new revision.
Load(b) ==
  LET a == fetched[b]
      r == Decrypted(a)
      new == [id |-> a.id, secret |-> a.secret, typo |-> None, data |-> r.doc,
              revision |-> a.revision + Applied(a)]
  IN /\ a # NoAccount
     /\ blob' = [blob EXCEPT ![b] = new]
     /\ fetched' = [fetched EXCEPT ![b] = NoAccount]
     /\ IF a.patches # <<>> /\ r.ok
        THEN Sends(b, Consolidation(new)) ELSE UNCHANGED flight
     /\ inStep' = [inStep EXCEPT ![b] = r.ok /\ a = account]
     /\ ahead' = IF r.ok THEN ahead ELSE ahead \cup {b}
     /\ UNCHANGED <<account, origin, log, replies, changes, faults, repeated>>

\* consolidate, as the application may call it at any time: the data as it is
\* now, under the revision of the login, which no posted patch advances.
Consolidate(b) ==
  /\ Loaded(b) /\ changes < MaxChanges
  /\ Sends(b, Consolidation(blob[b]))
  /\ changes' = changes + 1
  /\ repeated' = (repeated \/ b \in ahead)
  /\ UNCHANGED <<account, origin, log, blob, replies, fetched, faults, inStep,
                 ahead>>

IdentityRoot == <<"identityVault">>
HasVault(b) == Child(blob[b].data, "identityVault") # Undefined

\* Mutation: what threw is posted all the same.
UpdateAndPost(b, u, then) ==
  LET r == Apply(blob[b].data, u) IN
  /\ blob' = [blob EXCEPT ![b].data = r.doc]
  /\ Sends(b, Patch(blob[b], u, then))
  /\ inStep' = [inStep EXCEPT ![b] = @ /\ (r.ok \/ r.doc = blob[b].data)]
  /\ ahead' = IF r.doc = blob[b].data THEN ahead ELSE ahead \cup {b}

\* set, unset, extend, unshift, filter: the data first, then the patch.  An
\* update that throws is not posted, whatever it changed before.
Update(b, u, then) ==
  LET r == Apply(blob[b].data, u) IN
  /\ blob' = [blob EXCEPT ![b].data = r.doc]
  /\ IF r.ok THEN Sends(b, Patch(blob[b], u, then)) ELSE UNCHANGED flight
  /\ inStep' = [inStep EXCEPT ![b] = @ /\ (r.ok \/ r.doc = blob[b].data)]
  /\ ahead' = IF r.doc = blob[b].data THEN ahead ELSE ahead \cup {b}

Guarded(b, u) ==
  u.path = IdentityRoot => u.op # "unset" /\ ~(u.op = "set" /\ HasVault(b))

Change(b, u) ==
  /\ Loaded(b) /\ changes < MaxChanges /\ Guarded(b, u)
  /\ Update(b, u, None)
  /\ changes' = changes + 1
  /\ UNCHANGED <<account, origin, log, replies, fetched, faults, repeated>>

NewVault == [op |-> "set", path |-> IdentityRoot, args |-> Obj(<<>>)]
FieldUpdate(f) ==
  [op |-> "extend", path |-> IdentityRoot,
   args |-> Obj(f :> Obj("value" :> Secret))]
FieldUnset(f) == [op |-> "unset", path |-> IdentityRoot \o <<f>>, args |-> None]

\* Identity.set: the field waits for the answer to the vault it needs.
SetIdentity(b, f) ==
  /\ Loaded(b) /\ changes < MaxChanges
  /\ IF HasVault(b) THEN Update(b, FieldUpdate(f), None)
                    ELSE Update(b, NewVault, f)
  /\ changes' = changes + 1
  /\ UNCHANGED <<account, origin, log, replies, fetched, faults, repeated>>

\* Identity.unset with the key that decrypts the field, if there is one.
UnsetIdentity(b, f) ==
  /\ Loaded(b) /\ changes < MaxChanges
  /\ Update(b, FieldUnset(f), None)
  /\ changes' = changes + 1
  /\ UNCHANGED <<account, origin, log, replies, fetched, faults, repeated>>

NewKeys(b, k) == [Post("keys", b, None) EXCEPT !.newId = k, !.secret = k]

\* updateKeys: the blob has its new ID and key whatever the server answers.
UpdateKeys(b, k) ==
  /\ Loaded(b) /\ changes < MaxChanges
  /\ blob' = [blob EXCEPT ![b].id = k, ![b].secret = k]
  /\ Sends(b, NewKeys(blob[b], k))
  /\ changes' = changes + 1
  /\ UNCHANGED <<account, origin, log, replies, fetched, faults, inStep, ahead,
                 repeated>>

\* rename: the same, but the secret goes to a property nobody reads.
Rename(b, k) ==
  /\ Loaded(b) /\ changes < MaxChanges
  /\ blob' = [blob EXCEPT ![b].id = k, ![b].typo = k]
  /\ Sends(b, NewKeys(blob[b], k))
  /\ changes' = changes + 1
  /\ UNCHANGED <<account, origin, log, replies, fetched, faults, inStep, ahead,
                 repeated>>

ChangePassword(b, k) == UpdateKeys(b, k)

\* login's migration of an account that lacks a field, some time after it.
Migrate(b) == UpdateKeys(b, blob[b].id)

\* The keys depend on the user name too.
RenameUser(b, k) == k # blob[b].id /\ Rename(b, k)

-----------------------------------------------------------------------------
(* Requests and answers.                                                   *)

\* The server takes a request.
Accepts(a, p) ==
  IF p.kind = "create" THEN a.id = None
  ELSE /\ p.id = a.id
       /\ p.kind = "consolidate" =>
            p.revision \in a.revision..a.revision + Len(a.patches)

\* The account after it.
Handled(a, p) ==
  IF ~Accepts(a, p) THEN a
  ELSE CASE p.kind = "patch" -> [a EXCEPT !.patches = Append(@, p.update)]
         [] p.kind = "consolidate" ->
              [a EXCEPT !.data = p.data, !.revision = p.revision,
                        !.patches = SubSeq(@, p.revision - a.revision + 1, Len(@))]
         [] OTHER -> [id |-> p.newId, secret |-> p.secret, data |-> p.data,
                      revision |-> a.revision + Len(a.patches)
                                     + (IF p.kind = "keys" THEN 1 ELSE 0),
                      patches |-> <<>>]

Answers(b, p, ok) ==
  replies' = IF p.then = None THEN replies
             ELSE [replies EXCEPT ![b] = Append(@, [then |-> p.then, ok |-> ok])]

\* Requests of b that were called before the i-th and have not arrived, and
\* whose effect the order could change.
Overtaken(b, i) == \E j \in 1..i - 1 : flight[b][j].kind # "consolidate"

Arrives(b, i, lost) ==
  LET p == flight[b][i]
      whole == p.kind \in {"create", "keys"} IN
  /\ Accepts(account, p)
  /\ lost => p.then # None /\ faults < MaxFaults
  /\ faults' = faults + (IF lost THEN 1 ELSE 0)
  /\ account' = Handled(account, p)
  /\ origin' = IF whole THEN p.data ELSE origin
  /\ log' = CASE whole -> <<>>
              [] p.kind = "patch" -> Append(log, p.update)
              [] OTHER -> log
  /\ flight' = [flight EXCEPT ![b] = RemoveAt(@, i)]
  /\ Answers(b, p, ~lost)
  /\ inStep' = [c \in Blobs |->
                  /\ inStep[c]
                  /\ IF c = b THEN ~Overtaken(b, i) ELSE p.kind = "consolidate"]
  /\ UNCHANGED <<blob, fetched, changes, ahead, repeated>>

\* Refused, or lost on the way.
Fails(b, i) ==
  LET p == flight[b][i] IN
  /\ ~Accepts(account, p) \/ faults < MaxFaults
  /\ faults' = faults + (IF Accepts(account, p) THEN 1 ELSE 0)
  /\ flight' = [flight EXCEPT ![b] = RemoveAt(@, i)]
  /\ Answers(b, p, FALSE)
  /\ inStep' = [inStep EXCEPT ![b] = @ /\ p.kind = "consolidate"]
  /\ UNCHANGED <<account, origin, log, blob, fetched, changes, ahead, repeated>>

\* create's callback, or the step of Identity.set that waited.
Replied(b) ==
  LET r == Head(replies[b]) IN
  /\ replies[b] # <<>>
  /\ replies' = [replies EXCEPT ![b] = Tail(@)]
  /\ IF ~r.ok THEN UNCHANGED <<blob, flight, inStep, ahead>>
     ELSE IF r.then \in Keys
     THEN /\ blob' = [blob EXCEPT ![b] = NewBlob(r.then)]
          /\ inStep' = [inStep EXCEPT ![b] =
                          account = Handled(NoAccount, Post("create", NewBlob(r.then), None))]
          /\ UNCHANGED <<flight, ahead>>
     ELSE Update(b, FieldUpdate(r.then), None)
  /\ UNCHANGED <<account, origin, log, fetched, changes, faults, repeated>>

-----------------------------------------------------------------------------
Next ==
  \E b \in Blobs :
    \/ \E k \in Keys : \/ Register(b, k) \/ Login(b, k)
                        \/ ChangePassword(b, k) \/ RenameUser(b, k)
    \/ Recover(b) \/ Load(b) \/ Consolidate(b) \/ Migrate(b) \/ Replied(b)
    \/ \E u \in Updates : Change(b, u)
    \/ \E f \in Fields : SetIdentity(b, f) \/ UnsetIdentity(b, f)
    \/ \E i \in 1..Len(flight[b]) :
         (\E lost \in BOOLEAN : Arrives(b, i, lost)) \/ Fails(b, i)

Spec == Init /\ [][Next]_vars

-----------------------------------------------------------------------------
(* Properties.                                                             *)

\* "Consolidate patches as a new revision": a consolidation, from whichever
\* client and however late it arrives, replaces exactly the patches it holds.
\* What a login reads is every accepted patch, in order, up to one that throws.
\* Excluded is what the revision cannot tell the server: an application that
\* has a blob consolidated whose data it has changed, or whose patches did not
\* all apply.  The changes are stored and, as patches, replayed again.
NothingLost == repeated \/ Decrypted(account).doc = Replayed(origin, log).doc

\* The account after requests that arrive one after the other.
Settled(a, requests) ==
  LET after[n \in 0..Len(requests)] ==
        IF n = 0 THEN a ELSE Handled(after[n - 1], requests[n])
  IN after[Len(requests)]

\* A blob that is the only one written to, and none of whose requests failed
\* or was overtaken, holds what the server will once they have arrived: the
\* changes made before a patch is posted are those its replay makes.  (Again
\* unless a changed blob was consolidated.)
InStep ==
  \A b \in Blobs : ~repeated /\ inStep[b] =>
    LET end == Settled(account, flight[b]) IN
    /\ end.id = blob[b].id
    /\ end.secret = blob[b].secret \/ blob[b].typo # None
    /\ Decrypted(end).doc = blob[b].data
=============================================================================

---------------------------- MODULE VaultProofs ----------------------------
(* That no patch is lost or repeated, whatever updates do to documents, and  *)
(* that an untroubled blob holds what the server will.  Both rest on what a  *)
(* replay is: a run through the states between two patches.                  *)
EXTENDS Vault, WellFoundedInduction, TLAPS

-----------------------------------------------------------------------------
(* Sequences.                                                                *)

\* A set of numbers has a first.
LEMMA FirstNumber ==
  ASSUME NEW I, I \subseteq Nat, I # {}
  PROVE  \E m \in I : \A i \in I : m =< i
<1>. DEFINE Less == OpToRel(<, Nat)
<1>1. \A i, j \in Nat : i < j => <<i, j>> \in Less BY DEF OpToRel
<1>2. IsWellFoundedOn(Less, Nat) BY NatLessThanWellFounded
<1>. HIDE DEF Less
<1>3. PICK m \in I : \A i \in I : <<i, m>> \notin Less BY <1>2, WFMin
<1>4. ASSUME NEW i \in I PROVE m =< i
  <2>1. ~(i < m) BY <1>1, <1>3
  <2>. QED BY <2>1
<1>. QED BY <1>4

\* What holds of 0, and of a number with the one before it, holds of all.
LEMMA Upward ==
  ASSUME NEW N \in Nat, NEW I, 0 \in I, \A n \in 1..N : n - 1 \in I => n \in I
  PROVE  \A n \in 0..N : n \in I
<1>. DEFINE Out == {n \in 0..N : n \notin I}
<1>. SUFFICES ASSUME Out # {} PROVE FALSE OBVIOUS
<1>1. Out \subseteq Nat OBVIOUS
<1>2. PICK m \in Out : \A n \in Out : m =< n
  <2>. HIDE DEF Out
  <2>. QED BY <1>1, FirstNumber
<1>3. m \in 1..N /\ m - 1 \in 0..N /\ ~(m =< m - 1) BY <1>2
<1>4. m - 1 \in I BY <1>2, <1>3
<1>. QED BY <1>2, <1>3, <1>4

LEMMA FirstPart ==
  ASSUME NEW S, NEW list \in Seq(S), NEW n \in 0..Len(list)
  PROVE  /\ SubSeq(list, 1, n) \in Seq(S) /\ Len(SubSeq(list, 1, n)) = n
         /\ \A i \in 1..n : SubSeq(list, 1, n)[i] = list[i]
OBVIOUS

LEMMA LastPart ==
  ASSUME NEW S, NEW list \in Seq(S), NEW n \in 0..Len(list)
  PROVE  /\ SubSeq(list, n + 1, Len(list)) \in Seq(S)
         /\ Len(SubSeq(list, n + 1, Len(list))) = Len(list) - n
         /\ \A i \in 1..Len(list) - n : SubSeq(list, n + 1, Len(list))[i] = list[n + i]
OBVIOUS

\* Two sequences are the same if their lengths and elements are.
LEMMA SameList ==
  ASSUME NEW S, NEW T, NEW a \in Seq(S), NEW b \in Seq(T), Len(a) = Len(b),
         \A i \in 1..Len(a) : a[i] = b[i]
  PROVE  a = b
OBVIOUS

LEMMA Joined ==
  ASSUME NEW S, NEW front \in Seq(S), NEW back \in Seq(S)
  PROVE  /\ front \o back \in Seq(S) /\ Len(front \o back) = Len(front) + Len(back)
         /\ \A k \in 1..Len(front) + Len(back) :
              (front \o back)[k] = IF k =< Len(front) THEN front[k]
                                   ELSE back[k - Len(front)]
OBVIOUS

LEMMA Appended ==
  ASSUME NEW S, NEW list \in Seq(S), NEW e
  PROVE  /\ Append(list, e) \in Seq(S \cup {e}) /\ Len(Append(list, e)) = Len(list) + 1
         /\ Append(list, e)[Len(list) + 1] = e
         /\ \A i \in 1..Len(list) : Append(list, e)[i] = list[i]
<1>1. list \in Seq(S \cup {e}) OBVIOUS
<1>. QED BY <1>1

-----------------------------------------------------------------------------
(* What a replay is.                                                         *)

\* The document and the outcome after each of the updates.
Runs(run, d, updates) ==
  /\ run[0] = Done(d)
  /\ \A n \in 1..Len(updates) : run[n] = Patched(run[n - 1], updates[n])

\* There is such a run, for each length.
RunTo(g, d, updates, N) ==
  /\ g = [n \in 0..N |-> g[n]]
  /\ g[0] = Done(d)
  /\ \A n \in 1..N : g[n] = Patched(g[n - 1], updates[n])

LEMMA RunExists ==
  ASSUME NEW d, NEW S, NEW updates \in Seq(S), NEW N \in 0..Len(updates)
  PROVE  \E g : RunTo(g, d, updates, N)
<1>. DEFINE Is(g, m) == RunTo(g, d, updates, m)
            I == {m \in Nat : \E g : Is(g, m)}
<1>1. \E g : Is(g, 0)
  <2>. DEFINE g == [n \in 0..0 |-> Done(d)]
  <2>1. Is(g, 0) BY DEF RunTo
  <2>. QED BY <2>1
<1>2. ASSUME NEW m \in 1..N, NEW g, Is(g, m - 1) PROVE \E h : Is(h, m)
  <2>. DEFINE h == [n \in 0..m |-> IF n = m THEN Patched(g[m - 1], updates[m]) ELSE g[n]]
  <2>1. h = [n \in 0..m |-> h[n]] OBVIOUS
  <2>2. h[0] = Done(d) BY <1>2 DEF RunTo
  <2>3. ASSUME NEW n \in 1..m PROVE h[n] = Patched(h[n - 1], updates[n])
    <3>1. n \in 0..m /\ n - 1 \in 0..m /\ n - 1 # m OBVIOUS
    <3>2. CASE n = m BY <3>1, <3>2
    <3>3. CASE n # m
      <4>1. n \in 1..m - 1 BY <3>3
      <4>. QED BY <1>2, <3>1, <3>3, <4>1 DEF RunTo
    <3>. QED BY <3>2, <3>3
  <2>. HIDE DEF h
  <2>. QED BY <2>1, <2>2, <2>3 DEF RunTo
<1>3. \A m \in 0..N : m \in I
  <2>1. 0 \in I BY <1>1
  <2>2. \A m \in 1..N : m - 1 \in I => m \in I
    <3>. SUFFICES ASSUME NEW m \in 1..N, m - 1 \in I PROVE m \in I OBVIOUS
    <3>1. PICK g : Is(g, m - 1) OBVIOUS
    <3>. QED BY <1>2, <3>1
  <2>. HIDE DEF I
  <2>. QED BY <2>1, <2>2, Upward
<1>. QED
  <2>1. N \in 0..N OBVIOUS
  <2>. QED BY <1>3, <2>1

\* The replay is the end of a run.
LEMMA ReplayRuns ==
  ASSUME NEW d, NEW S, NEW updates \in Seq(S)
  PROVE  \E run : Runs(run, d, updates) /\ Replayed(d, updates) = run[Len(updates)]
<1>. DEFINE Def(g, n) == IF n = 0 THEN Done(d)
                         ELSE Patched(g[n - 1], updates[n])
            run == CHOOSE g : g = [n \in 0..Len(updates) |-> Def(g, n)]
<1>1. \E g : g = [n \in 0..Len(updates) |-> Def(g, n)]
  <2>1. Len(updates) \in 0..Len(updates) OBVIOUS
  <2>2. PICK g : RunTo(g, d, updates, Len(updates)) BY <2>1, RunExists
  <2>3. \A n \in 0..Len(updates) : g[n] = Def(g, n) BY <2>2 DEF RunTo
  <2>4. g = [n \in 0..Len(updates) |-> Def(g, n)] BY <2>2, <2>3 DEF RunTo
  <2>. QED BY <2>4
<1>2. run = [n \in 0..Len(updates) |-> Def(run, n)] BY <1>1
<1>3. Replayed(d, updates) = run[Len(updates)] BY DEF Replayed
<1>. HIDE DEF run
<1>4. run[0] = Done(d) BY <1>2
<1>5. ASSUME NEW n \in 1..Len(updates) PROVE run[n] = Patched(run[n - 1], updates[n])
  <2>1. n \in 0..Len(updates) /\ n # 0 OBVIOUS
  <2>2. run[n] = Def(run, n) BY <1>2, <2>1
  <2>. QED BY <2>1, <2>2
<1>. QED BY <1>3, <1>4, <1>5 DEF Runs

LEMMA RunsAgree ==
  ASSUME NEW d, NEW S, NEW updates \in Seq(S), NEW a, NEW b,
         Runs(a, d, updates), Runs(b, d, updates)
  PROVE  \A n \in 0..Len(updates) : a[n] = b[n]
<1>. DEFINE I == {n \in Nat : a[n] = b[n]}
<1>1. 0 \in I BY DEF Runs
<1>2. \A n \in 1..Len(updates) : n - 1 \in I => n \in I BY DEF Runs
<1>3. Len(updates) \in Nat OBVIOUS
<1>4. \A n \in 0..Len(updates) : n \in I
  <2>. HIDE DEF I
  <2>. QED BY <1>1, <1>2, <1>3, Upward
<1>. QED BY <1>4

\* What the first n of the updates make of d.
State(d, updates, n) == Replayed(d, SubSeq(updates, 1, n))

\* The states are a run.
LEMMA StateRuns ==
  ASSUME NEW d, NEW S, NEW updates \in Seq(S)
  PROVE  /\ State(d, updates, 0) = Done(d)
         /\ \A n \in 1..Len(updates) :
              State(d, updates, n) = Patched(State(d, updates, n - 1), updates[n])
         /\ State(d, updates, Len(updates)) = Replayed(d, updates)
<1>1. PICK run : Runs(run, d, updates) BY ReplayRuns
<1>2. ASSUME NEW n \in 0..Len(updates) PROVE State(d, updates, n) = run[n]
  <2>. DEFINE some == SubSeq(updates, 1, n)
  <2>1. some \in Seq(S) /\ Len(some) = n /\ \A i \in 1..n : some[i] = updates[i]
    BY FirstPart
  <2>2. State(d, updates, n) = Replayed(d, some) BY DEF State
  <2>. HIDE DEF some
  <2>3. PICK r : Runs(r, d, some) /\ Replayed(d, some) = r[n] BY <2>1, ReplayRuns
  <2>4. Runs(run, d, some) BY <1>1, <2>1 DEF Runs
  <2>5. n \in 0..Len(some) BY <2>1
  <2>6. r[n] = run[n] BY <2>1, <2>3, <2>4, <2>5, RunsAgree
  <2>. QED BY <2>2, <2>3, <2>6
<1>3. Len(updates) \in Nat /\ SubSeq(updates, 1, Len(updates)) = updates OBVIOUS
<1>4. State(d, updates, 0) = Done(d) BY <1>1, <1>2, <1>3 DEF Runs
<1>5. ASSUME NEW n \in 1..Len(updates)
      PROVE  State(d, updates, n) = Patched(State(d, updates, n - 1), updates[n])
  <2>1. n \in 0..Len(updates) /\ n - 1 \in 0..Len(updates) OBVIOUS
  <2>. QED BY <1>1, <1>2, <2>1 DEF Runs
<1>6. State(d, updates, Len(updates)) = Replayed(d, updates) BY <1>3 DEF State
<1>. QED BY <1>4, <1>5, <1>6

LEMMA StateFirst ==
  ASSUME NEW d, NEW S, NEW updates \in Seq(S)
  PROVE  State(d, updates, 0) = Done(d)
BY StateRuns

LEMMA StateLast ==
  ASSUME NEW d, NEW S, NEW updates \in Seq(S)
  PROVE  State(d, updates, Len(updates)) = Replayed(d, updates)
BY StateRuns

LEMMA StateNext ==
  ASSUME NEW d, NEW S, NEW updates \in Seq(S), NEW n \in 1..Len(updates)
  PROVE  State(d, updates, n) = Patched(State(d, updates, n - 1), updates[n])
BY StateRuns

\* Results that no update tells apart.
Alike(a, b) == (a.ok <=> b.ok) /\ a.doc = b.doc

LEMMA AlikeStays ==
  ASSUME NEW a, NEW b, NEW u, Alike(a, b)
  PROVE  Alike(Patched(a, u), Patched(b, u))
BY DEF Alike, Patched

\* A further update.
LEMMA ReplayAppend ==
  ASSUME NEW d, NEW S, NEW updates \in Seq(S), NEW u
  PROVE  Replayed(d, Append(updates, u)) = Patched(Replayed(d, updates), u)
<1>. DEFINE more == Append(updates, u)
            n == Len(updates)
<1>1. more \in Seq(S \cup {u}) /\ Len(more) = n + 1 /\ more[n + 1] = u /\ n \in Nat
  BY Appended
<1>2. SubSeq(more, 1, n) = updates
  <2>1. SubSeq(more, 1, n) \in Seq(S \cup {u}) /\ Len(SubSeq(more, 1, n)) = n
        /\ \A i \in 1..n : SubSeq(more, 1, n)[i] = more[i]
    <3>1. n \in 0..Len(more) BY <1>1
    <3>. HIDE DEF more, n
    <3>. QED BY <1>1, <3>1, FirstPart
  <2>2. \A i \in 1..n : more[i] = updates[i] BY Appended
  <2>. QED BY <2>1, <2>2, SameList
<1>. HIDE DEF more
<1>3. State(d, more, n + 1) = Patched(State(d, more, (n + 1) - 1), more[n + 1])
  <2>1. n + 1 \in 1..Len(more) BY <1>1
  <2>. QED BY <1>1, <2>1, StateNext
<1>4. (n + 1) - 1 = n BY <1>1
<1>. QED BY <1>1, <1>2, <1>3, <1>4, StateRuns DEF State, more

\* If all updates apply, the first ones do.
LEMMA FirstApply ==
  ASSUME NEW d, NEW S, NEW updates \in Seq(S), NEW k \in 0..Len(updates),
         State(d, updates, k).ok
  PROVE  \A n \in 0..k : State(d, updates, n).ok
<1>. DEFINE I == {m \in 0..k : State(d, updates, k - m).ok}
<1>1. 0 \in I OBVIOUS
<1>2. ASSUME NEW m \in 1..k, m - 1 \in I PROVE m \in I
  <2>1. k - m + 1 \in 1..Len(updates) /\ (k - m + 1) - 1 = k - m /\ k - (m - 1) = k - m + 1
    OBVIOUS
  <2>2. State(d, updates, k - m + 1) = Patched(State(d, updates, k - m), updates[k - m + 1])
    BY <2>1, StateNext
  <2>3. State(d, updates, k - m + 1).ok BY <1>2, <2>1
  <2>. QED BY <2>2, <2>3 DEF Patched
<1>3. \A m \in 0..k : m \in I
  <2>. HIDE DEF I
  <2>. QED BY <1>1, <1>2, Upward
<1>4. ASSUME NEW n \in 0..k PROVE State(d, updates, n).ok
  <2>1. k - n \in 0..k /\ k - (k - n) = n OBVIOUS
  <2>2. k - n \in I BY <1>3, <2>1
  <2>. QED BY <2>1, <2>2
<1>. QED BY <1>4

\* A replay may be interrupted: the rest goes on from where the first part led.
LEMMA ReplaySplit ==
  ASSUME NEW d, NEW S, NEW updates \in Seq(S), NEW k \in 0..Len(updates),
         NEW e, State(d, updates, k).ok, State(d, updates, k).doc = e,
         NEW T, NEW rest \in Seq(T), Len(rest) =< Len(updates) - k,
         \A i \in 1..Len(rest) : rest[i] = updates[k + i]
  PROVE  Alike(Replayed(e, rest), State(d, updates, k + Len(rest)))
<1>. DEFINE I == {m \in Nat : Alike(State(e, rest, m), State(d, updates, k + m))}
<1>1. 0 \in I
  <2>1. State(e, rest, 0) = Done(e) /\ k + 0 = k BY StateFirst
  <2>2. Done(e).ok /\ Done(e).doc = e BY DEF Done
  <2>. QED BY <2>1, <2>2 DEF Alike
<1>2. ASSUME NEW m \in 1..Len(rest), m - 1 \in I PROVE m \in I
  <2>1. k + m \in 1..Len(updates) /\ k + (m - 1) = (k + m) - 1 /\ m \in Nat OBVIOUS
  <2>2. State(e, rest, m) = Patched(State(e, rest, m - 1), rest[m]) BY StateNext
  <2>3. State(d, updates, k + m) = Patched(State(d, updates, (k + m) - 1), updates[k + m])
    BY <2>1, StateNext
  <2>4. Alike(State(e, rest, m - 1), State(d, updates, (k + m) - 1)) BY <1>2, <2>1
  <2>. QED BY <2>1, <2>2, <2>3, <2>4, AlikeStays
<1>3. Len(rest) \in Nat OBVIOUS
<1>4. \A m \in 0..Len(rest) : m \in I
  <2>. HIDE DEF I
  <2>. QED BY <1>1, <1>2, <1>3, Upward
<1>5. Len(rest) \in I BY <1>3, <1>4
<1>. QED BY <1>5, StateLast

-----------------------------------------------------------------------------
(* Revisions.                                                                *)

\* The revision that origin had.
Base == account.revision - (Len(log) - Len(account.patches))

\* data is what revision r holds, since the account was last stored whole.
IsState(r, data) ==
  /\ r - Base \in 0..Len(log)
  /\ State(origin, log, r - Base).ok /\ State(origin, log, r - Base).doc = data

Shaped(a) ==
  \E D, S : a \in [id : D, secret : D, data : D, revision : Nat, patches : Seq(S)]

\* a is the account as it is, or was since it was last stored whole.
Current(a) ==
  /\ IsState(a.revision, a.data)
  /\ a.revision - Base + Len(a.patches) =< Len(log)
  /\ \A i \in 1..Len(a.patches) : a.patches[i] = log[a.revision - Base + i]

\* a is the account as it was before that.
Past(a) == a.revision + Len(a.patches) < Base

\* What a login may have been answered.
Readable(a) == account.id # None /\ Shaped(a) /\ (Past(a) \/ Current(a))

\* Data for a revision that is what it holds, or of no more use.
Held(r, data) ==
  /\ account.id # None /\ r \in Nat
  /\ r < Base \/ IsState(r, data)

\* A consolidation that the server would take holds what its revision does.
Sound(p) ==
  /\ p.kind \in {"create", "patch", "consolidate", "keys"}
  /\ p.kind \in {"create", "keys"} => p.newId # None
  /\ p.kind = "consolidate" => Held(p.revision, p.data)

AccountInv ==
  /\ Shaped(account) /\ (\E S : log \in Seq(S))
  /\ Len(account.patches) =< Len(log) /\ Current(account)

FetchedInv ==
  /\ \E A : fetched \in [Blobs -> A]
  /\ \A b \in Blobs : fetched[b] # NoAccount => Readable(fetched[b])

FlightInv ==
  /\ \E F : flight \in [Blobs -> Seq(F)]
  /\ \A b \in Blobs : \A i \in 1..Len(flight[b]) : Sound(flight[b][i])

LogInv == AccountInv /\ FetchedInv /\ FlightInv

-----------------------------------------------------------------------------

LEMMA LogOf ==
  ASSUME AccountInv
  PROVE  /\ account.revision \in Nat /\ Len(account.patches) \in Nat /\ Len(log) \in Nat
         /\ Base \in Int /\ account.revision - Base = Len(log) - Len(account.patches)
         /\ Base + Len(log) = account.revision + Len(account.patches)
BY DEF AccountInv, Shaped, Base

\* What is read of a current account is a state of the log.
LEMMA ReadsLog ==
  ASSUME AccountInv, NEW a, Shaped(a), Current(a)
  PROVE  Alike(Decrypted(a), State(origin, log, a.revision - Base + Len(a.patches)))
<1>1. PICK S : log \in Seq(S) BY DEF AccountInv
<1>2. PICK T : a.patches \in Seq(T) /\ a.revision \in Nat BY DEF Shaped
<1>. DEFINE k == a.revision - Base
<1>3. k \in 0..Len(log) /\ State(origin, log, k).ok /\ State(origin, log, k).doc = a.data
  BY DEF Current, IsState
<1>4. Len(a.patches) =< Len(log) - k
  BY <1>1, <1>2, <1>3, LogOf DEF Current
<1>5. \A i \in 1..Len(a.patches) : a.patches[i] = log[k + i] BY DEF Current
<1>. HIDE DEF k
<1>6. Alike(Replayed(a.data, a.patches), State(origin, log, k + Len(a.patches)))
  BY <1>1, <1>2, <1>3, <1>4, <1>5, ReplaySplit
<1>. QED BY <1>6 DEF Decrypted, k

LEMMA LogReads ==
  ASSUME AccountInv
  PROVE  Decrypted(account).doc = Replayed(origin, log).doc
<1>1. Alike(Decrypted(account), State(origin, log, Len(log)))
  <2>1. Shaped(account) /\ Current(account) BY DEF AccountInv
  <2>2. account.revision - Base + Len(account.patches) = Len(log) BY LogOf
  <2>. QED BY <2>1, <2>2, ReadsLog
<1>2. State(origin, log, Len(log)) = Replayed(origin, log) BY StateLast DEF AccountInv
<1>. QED BY <1>1, <1>2 DEF Alike

\* A request more.
LEMMA FlightSends ==
  ASSUME FlightInv, NEW b \in Blobs, NEW p, Sound(p), Sends(b, p),
         UNCHANGED <<account, origin, log>>
  PROVE  FlightInv'
<1>1. PICK F : flight \in [Blobs -> Seq(F)] BY DEF FlightInv
<1>2. flight' = [flight EXCEPT ![b] = Append(flight[b], p)] BY DEF Sends
<1>3. flight' \in [Blobs -> Seq(F \cup {p})]
  <2>1. \A c \in Blobs : flight[c] \in Seq(F \cup {p}) BY <1>1
  <2>2. Append(flight[b], p) \in Seq(F \cup {p}) BY <2>1
  <2>. QED BY <1>1, <1>2, <2>1, <2>2
<1>4. ASSUME NEW c \in Blobs, NEW i \in 1..Len(flight'[c]) PROVE Sound(flight'[c][i])
  <2>1. CASE c = b
    <3>1. flight[b] \in Seq(F) /\ flight'[b] = Append(flight[b], p) BY <1>1, <1>2
    <3>2. CASE i = Len(flight[b]) + 1 BY <2>1, <3>1, <3>2
    <3>3. CASE i # Len(flight[b]) + 1
      <4>1. i \in 1..Len(flight[b]) /\ flight'[b][i] = flight[b][i]
        BY <2>1, <3>1, <3>3, Appended
      <4>. QED BY <2>1, <4>1 DEF FlightInv
    <3>. QED BY <3>2, <3>3
  <2>2. CASE c # b
    BY <1>1, <1>2, <2>2 DEF FlightInv
  <2>. QED BY <2>1, <2>2
<1>5. \A q : Sound(q) => Sound(q)' BY DEF Sound, Held, IsState, Base
<1>. QED BY <1>3, <1>4, <1>5 DEF FlightInv

\* A request less.
LEMMA RemovedAt ==
  ASSUME NEW S, NEW list \in Seq(S), NEW i \in 1..Len(list)
  PROVE  /\ RemoveAt(list, i) \in Seq(S) /\ Len(RemoveAt(list, i)) = Len(list) - 1
         /\ \A k \in 1..Len(list) - 1 :
              RemoveAt(list, i)[k] = list[IF k < i THEN k ELSE k + 1]
<1>. DEFINE front == SubSeq(list, 1, i - 1)
            back == SubSeq(list, i + 1, Len(list))
<1>1. /\ front \in Seq(S) /\ Len(front) = i - 1
      /\ \A k \in 1..i - 1 : front[k] = list[k]
  <2>1. i - 1 \in 0..Len(list) OBVIOUS
  <2>. QED BY <2>1, FirstPart
<1>2. /\ back \in Seq(S) /\ Len(back) = Len(list) - i
      /\ \A k \in 1..Len(list) - i : back[k] = list[i + k]
  <2>1. i \in 0..Len(list) OBVIOUS
  <2>. QED BY <2>1, LastPart
<1>3. RemoveAt(list, i) = front \o back BY DEF RemoveAt
<1>. HIDE DEF front, back
<1>4. /\ front \o back \in Seq(S) /\ Len(front \o back) = Len(front) + Len(back)
      /\ \A k \in 1..Len(front) + Len(back) :
           (front \o back)[k] = IF k =< Len(front) THEN front[k] ELSE back[k - Len(front)]
  BY <1>1, <1>2, Joined
<1>5. Len(list) \in Nat /\ i \in Nat OBVIOUS
<1>6. ASSUME NEW k \in 1..Len(list) - 1
      PROVE  (front \o back)[k] = list[IF k < i THEN k ELSE k + 1]
  <2>1. k \in 1..Len(front) + Len(back) BY <1>1, <1>2, <1>5
  <2>2. CASE k < i
    <3>1. k =< Len(front) /\ k \in 1..i - 1 BY <1>1, <1>5, <2>2
    <3>. QED BY <1>1, <1>4, <2>1, <2>2, <3>1
  <2>3. CASE ~(k < i)
    <3>1. ~(k =< Len(front)) /\ k - Len(front) \in 1..Len(list) - i
          /\ i + (k - Len(front)) = k + 1
      BY <1>1, <1>5, <2>3
    <3>. QED BY <1>2, <1>4, <2>1, <2>3, <3>1
  <2>. QED BY <2>2, <2>3
<1>. QED BY <1>1, <1>2, <1>3, <1>4, <1>5, <1>6, SMTT(30)

\* What was sound stays so.
StaysSound == \A p : Sound(p) => Sound(p)'

LEMMA FlightRemoves ==
  ASSUME FlightInv, NEW b \in Blobs, NEW i \in 1..Len(flight[b]),
         flight' = [flight EXCEPT ![b] = RemoveAt(@, i)], StaysSound
  PROVE  FlightInv'
<1>1. PICK F : flight \in [Blobs -> Seq(F)] BY DEF FlightInv
<1>2. DEFINE old == flight[b]
             new == RemoveAt(old, i)
<1>3. old \in Seq(F) /\ Len(old) \in Nat BY <1>1
<1>4. /\ new \in Seq(F) /\ Len(new) = Len(old) - 1
      /\ \A k \in 1..Len(old) - 1 : new[k] = old[IF k < i THEN k ELSE k + 1]
  BY <1>3, RemovedAt
<1>5. flight' = [flight EXCEPT ![b] = new] OBVIOUS
<1>. HIDE DEF new
<1>6. flight' \in [Blobs -> Seq(F)] BY <1>1, <1>4, <1>5
<1>7. ASSUME NEW c \in Blobs, NEW k \in 1..Len(flight'[c]) PROVE Sound(flight'[c][k])
  <2>1. CASE c = b
    <3>1. flight'[c] = new BY <1>1, <1>5, <2>1
    <3>2. k \in 1..Len(old) - 1 /\ (IF k < i THEN k ELSE k + 1) \in 1..Len(old)
      BY <1>3, <1>4, <3>1
    <3>. QED BY <1>4, <3>1, <3>2 DEF FlightInv
  <2>2. CASE c # b
    BY <1>1, <1>5, <2>2 DEF FlightInv
  <2>. QED BY <2>1, <2>2
<1>. QED BY <1>6, <1>7 DEF FlightInv, StaysSound

\* What was readable stays so.
StaysReadable == \A a : Readable(a) => Readable(a)'

LEMMA FetchedMoves ==
  ASSUME StaysReadable, NEW A, fetched' \in [Blobs -> A],
         \A b \in Blobs : fetched'[b] # NoAccount => Readable(fetched'[b])
  PROVE  FetchedInv'
BY DEF FetchedInv, StaysReadable

LEMMA FetchedStays ==
  ASSUME FetchedInv, UNCHANGED fetched, StaysReadable
  PROVE  FetchedInv'
BY DEF FetchedInv, StaysReadable

LEMMA Nothing ==
  ASSUME UNCHANGED <<account, origin, log>>
  PROVE  StaysSound /\ StaysReadable /\ (AccountInv => AccountInv')
BY DEF StaysSound, StaysReadable, AccountInv, Sound, Held, Readable, Past, Current, IsState, Base, Shaped

LEMMA FlightStays ==
  ASSUME FlightInv, UNCHANGED flight, StaysSound
  PROVE  FlightInv'
BY DEF FlightInv, StaysSound

-----------------------------------------------------------------------------
(* The applications' calls.                                                  *)

LEMMA LogSends ==
  ASSUME LogInv, NEW b \in Blobs, NEW p, Sound(p), Sends(b, p),
         UNCHANGED <<account, origin, log, fetched>>
  PROVE  LogInv'
BY FlightSends, FetchedStays, Nothing DEF LogInv

LEMMA LogStays ==
  ASSUME LogInv, UNCHANGED <<account, origin, log, fetched, flight>>
  PROVE  LogInv'
BY FlightStays, FetchedStays, Nothing DEF LogInv

LEMMA LogUpdates ==
  ASSUME LogInv, NEW b \in Blobs, NEW u, NEW then, Update(b, u, then),
         UNCHANGED <<account, origin, log, fetched>>
  PROVE  LogInv'
<1>1. CASE Sends(b, Patch(blob[b], u, then))
  <2>1. Sound(Patch(blob[b], u, then)) BY DEF Sound, Patch, Post
  <2>. QED BY <1>1, <2>1, LogSends
<1>2. CASE UNCHANGED flight BY <1>2, LogStays
<1>. QED BY <1>1, <1>2 DEF Update

LEMMA LogRegisters ==
  ASSUME LogInv, NEW b \in Blobs, NEW k \in Keys, Register(b, k) PROVE LogInv'
<1>1. Sound(Post("create", NewBlob(k), k))
  BY VaultAssumption DEF Sound, Post, NewBlob, NoBlob
<1>. QED BY <1>1, LogSends DEF Register

LEMMA LogKeys ==
  ASSUME LogInv, NEW b \in Blobs, NEW k, k # None, Sends(b, NewKeys(blob[b], k)),
         UNCHANGED <<account, origin, log, fetched>>
  PROVE  LogInv'
<1>1. Sound(NewKeys(blob[b], k)) BY DEF Sound, NewKeys, Post
<1>. QED BY <1>1, LogSends

LEMMA LogFetches ==
  ASSUME LogInv, NEW b \in Blobs, Fetch(b) PROVE LogInv'
<1>1. UNCHANGED <<account, origin, log, flight>> /\ account.id # None
      /\ fetched' = [fetched EXCEPT ![b] = account]
  BY DEF Fetch
<1>2. AccountInv' /\ FlightInv' BY <1>1, FlightStays, Nothing DEF LogInv
<1>3. PICK A : fetched \in [Blobs -> A] BY DEF LogInv, FetchedInv
<1>4. fetched' \in [Blobs -> A \cup {account}] BY <1>1, <1>3
<1>5. \A c \in Blobs : fetched'[c] = fetched[c] \/ fetched'[c] = account BY <1>1, <1>3
<1>6. Readable(account) BY <1>1 DEF LogInv, AccountInv, Readable
<1>7. \A c \in Blobs : fetched'[c] # NoAccount => Readable(fetched'[c])
  BY <1>5, <1>6 DEF LogInv, FetchedInv
<1>8. FetchedInv' BY <1>1, <1>4, <1>7, FetchedMoves, Nothing
<1>. QED BY <1>2, <1>8 DEF LogInv

\* Patches that all apply were all applied.
LEMMA AllApplied ==
  ASSUME NEW a, Shaped(a), Decrypted(a).ok
  PROVE  Applied(a) = Len(a.patches)
<1>. DEFINE N == Len(a.patches)
            Ok(n) == Replayed(a.data, SubSeq(a.patches, 1, n)).ok
<1>1. PICK T : a.patches \in Seq(T) BY DEF Shaped
<1>2. N \in Nat /\ N \in 0..Len(a.patches) BY <1>1
<1>3. \A n \in 0..N : State(a.data, a.patches, n).ok
  <2>1. State(a.data, a.patches, N).ok BY <1>1, StateLast DEF Decrypted
  <2>. HIDE DEF N
  <2>. QED BY <1>1, <1>2, <2>1, FirstApply
<1>4. \A n \in 0..N : Ok(n) BY <1>3 DEF State
<1>. DEFINE Good(n) == Ok(n) /\ (n = N \/ ~Ok(n + 1))
<1>5. Good(N) BY <1>2, <1>4
<1>6. Applied(a) = CHOOSE n \in 0..N : Good(n) BY DEF Applied
<1>. HIDE DEF N, Ok
<1>7. ASSUME NEW n \in 0..N, Good(n) PROVE n = N
  <2>1. n # N => n + 1 \in 0..N BY <1>2
  <2>. QED BY <1>4, <1>7, <2>1
<1>. HIDE DEF Good
<1>8. N \in 0..N BY <1>2
<1>9. (CHOOSE n \in 0..N : Good(n)) \in 0..N /\ Good(CHOOSE n \in 0..N : Good(n))
  BY <1>5, <1>8
<1>. QED BY <1>6, <1>7, <1>9 DEF N

\* Patches that were all read leave the blob at what its revision holds.
LEMMA LoadHolds ==
  ASSUME LogInv, NEW b \in Blobs, fetched[b] # NoAccount, Decrypted(fetched[b]).ok
  PROVE  Held(fetched[b].revision + Applied(fetched[b]), Decrypted(fetched[b]).doc)
<1>. DEFINE a == fetched[b]
            r == Decrypted(a)
<1>1. PICK new : new = a.revision + Applied(a) OBVIOUS
<1>2. AccountInv /\ account.id # None /\ Shaped(a) /\ (Past(a) \/ Current(a))
  BY DEF LogInv, FetchedInv, Readable
<1>3. a.revision \in Nat /\ Len(a.patches) \in Nat BY <1>2 DEF Shaped
<1>4. new = a.revision + Len(a.patches) BY <1>1, <1>2, AllApplied
<1>5. CASE Past(a) BY <1>1, <1>2, <1>3, <1>4, <1>5 DEF Past, Held
<1>6. CASE Current(a)
  <2>1. Alike(r, State(origin, log, a.revision - Base + Len(a.patches)))
    BY <1>2, <1>6, ReadsLog
  <2>2. a.revision - Base \in 0..Len(log)
        /\ a.revision - Base + Len(a.patches) =< Len(log)
    BY <1>6 DEF Current, IsState
  <2>3. new - Base = a.revision - Base + Len(a.patches) BY <1>2, <1>3, <1>4, LogOf, SMTT(30)
  <2>4. new - Base \in 0..Len(log)
    <3>1. PICK k \in 0..Len(log) : k = a.revision - Base BY <2>2
    <3>2. PICK n \in Nat : n = Len(a.patches) BY <1>3
    <3>3. Len(log) \in Nat BY <1>2, LogOf
    <3>4. k + n =< Len(log) BY <2>2, <3>1, <3>2
    <3>5. k + n \in 0..Len(log) BY <3>3, <3>4
    <3>. QED BY <2>3, <3>1, <3>2, <3>5
  <2>5. IsState(new, r.doc) BY <2>1, <2>3, <2>4 DEF Alike, IsState
  <2>. QED BY <1>1, <1>2, <1>3, <1>4, <2>5 DEF Held
<1>. QED BY <1>2, <1>5, <1>6

LEMMA SoundOf ==
  ASSUME NEW x
  PROVE  Sound(Consolidation(x)) <=> Held(x.revision, x.data)
<1>1. Consolidation(x).kind = "consolidate" /\ Consolidation(x).revision = x.revision
      /\ Consolidation(x).data = x.data
  BY DEF Consolidation, Post
<1>. QED BY <1>1 DEF Sound

LEMMA LogLoads ==
  ASSUME LogInv, NEW b \in Blobs, Load(b) PROVE LogInv'
<1>. DEFINE a == fetched[b]
            r == Decrypted(a)
<1>1. PICK new :
        /\ new = [id |-> a.id, secret |-> a.secret, typo |-> None, data |-> r.doc,
                  revision |-> a.revision + Applied(a)]
        /\ a # NoAccount /\ fetched' = [fetched EXCEPT ![b] = NoAccount]
        /\ IF a.patches # <<>> /\ r.ok
           THEN Sends(b, Consolidation(new)) ELSE UNCHANGED flight
        /\ UNCHANGED <<account, origin, log>>
  BY DEF Load
<1>2. AccountInv' /\ StaysSound /\ StaysReadable BY <1>1, Nothing DEF LogInv
<1>3. FetchedInv'
  <2>1. PICK A : fetched \in [Blobs -> A] BY DEF LogInv, FetchedInv
  <2>2. fetched' \in [Blobs -> A \cup {NoAccount}] BY <1>1, <2>1
  <2>3. \A c \in Blobs : fetched'[c] # NoAccount => fetched'[c] = fetched[c]
    BY <1>1, <2>1
  <2>4. \A c \in Blobs : fetched'[c] # NoAccount => Readable(fetched'[c])
    BY <2>3 DEF LogInv, FetchedInv
  <2>. QED BY <1>2, <2>2, <2>4, FetchedMoves
<1>4. FlightInv'
  <2>1. CASE UNCHANGED flight BY <1>2, <2>1, FlightStays DEF LogInv
  <2>2. CASE r.ok /\ Sends(b, Consolidation(new))
    <3>1. Held(new.revision, new.data) BY <1>1, <2>2, LoadHolds
    <3>2. Sound(Consolidation(new)) BY <3>1, SoundOf
    <3>. QED BY <1>1, <2>2, <3>2, FlightSends DEF LogInv
  <2>. QED BY <1>1, <2>1, <2>2
<1>. QED BY <1>2, <1>3, <1>4 DEF LogInv

-----------------------------------------------------------------------------
(* Requests that arrive.                                                     *)

\* The log and the revisions of the same origin: what was a state stays one.
LEMMA LogGrows ==
  ASSUME AccountInv, origin' = origin, Base' = Base,
         NEW S, log' \in Seq(S), Len(log) =< Len(log'),
         \A i \in 1..Len(log) : log'[i] = log[i]
  PROVE  /\ \A r, d : IsState(r, d) => IsState(r, d)'
         /\ \A a : Shaped(a) => (Past(a) => Past(a)') /\ (Current(a) => Current(a)')
<1>1. PICK T : log \in Seq(T) BY DEF AccountInv
<1>2. ASSUME NEW n \in 0..Len(log) PROVE SubSeq(log', 1, n) = SubSeq(log, 1, n)
  <2>1. n \in 0..Len(log') BY <1>1
  <2>2. SubSeq(log, 1, n) \in Seq(T) /\ Len(SubSeq(log, 1, n)) = n
        /\ \A i \in 1..n : SubSeq(log, 1, n)[i] = log[i]
    BY <1>1, FirstPart
  <2>3. SubSeq(log', 1, n) \in Seq(S) /\ Len(SubSeq(log', 1, n)) = n
        /\ \A i \in 1..n : SubSeq(log', 1, n)[i] = log'[i]
    BY <2>1, FirstPart
  <2>4. \A i \in 1..n : log'[i] = log[i] BY <1>1
  <2>. QED BY <2>2, <2>3, <2>4, SameList
<1>3. \A n \in 0..Len(log) : State(origin', log', n) = State(origin, log, n)
  BY <1>2 DEF State
<1>4. ASSUME NEW r, NEW d, IsState(r, d) PROVE IsState(r, d)'
  <2>1. r - Base \in 0..Len(log) /\ r - Base \in 0..Len(log') BY <1>1, <1>4 DEF IsState
  <2>2. State(origin', log', r - Base) = State(origin, log, r - Base) BY <1>3, <2>1
  <2>. QED BY <1>4, <2>1, <2>2 DEF IsState, State
<1>5. ASSUME NEW a, Shaped(a), Current(a) PROVE Current(a)'
  <2>1. a.revision \in Nat /\ Len(a.patches) \in Nat BY <1>5 DEF Shaped
  <2>2. PICK k \in 0..Len(log) : k = a.revision - Base BY <1>5 DEF Current, IsState
  <2>3. k + Len(a.patches) =< Len(log) BY <1>5, <2>2 DEF Current
  <2>4. k + Len(a.patches) =< Len(log') BY <1>1, <2>1, <2>3
  <2>5. \A i \in 1..Len(a.patches) : a.patches[i] = log'[k + i]
    <3>1. \A i \in 1..Len(a.patches) : k + i \in 1..Len(log) BY <1>1, <2>1, <2>3
    <3>. QED BY <1>5, <2>2, <3>1 DEF Current
  <2>6. IsState(a.revision, a.data)' BY <1>4, <1>5 DEF Current
  <2>. QED BY <2>2, <2>4, <2>5, <2>6 DEF Current
<1>. QED BY <1>4, <1>5 DEF Past

LEMMA StaysOf ==
  ASSUME account.id # None => account.id' # None,
         \A r \in Nat : \A d : account.id # None /\ (r < Base \/ IsState(r, d))
                                 => r < Base' \/ IsState(r, d)',
         \A a : Shaped(a) /\ account.id # None /\ (Past(a) \/ Current(a))
                  => Past(a)' \/ Current(a)'
  PROVE  StaysSound /\ StaysReadable
BY DEF StaysSound, StaysReadable, Sound, Held, Readable, Shaped

LEMMA TakesPatch ==
  ASSUME LogInv, NEW u, log' = Append(log, u), UNCHANGED origin,
         account' = [account EXCEPT !.patches = Append(@, u)]
  PROVE  AccountInv' /\ StaysSound /\ StaysReadable
<1>1. PICK D, T : account \in [id : D, secret : D, data : D, revision : Nat, patches : Seq(T)]
  BY DEF LogInv, AccountInv, Shaped
<1>2. PICK S : log \in Seq(S) BY DEF LogInv, AccountInv
<1>. DEFINE old == account.patches
            new == account'.patches
<1>3. /\ account' \in [id : D, secret : D, data : D, revision : Nat, patches : Seq(T \cup {u})]
      /\ new = Append(old, u) /\ account'.revision = account.revision
      /\ account'.data = account.data /\ account.id' = account.id
  <2>1. old \in Seq(T) BY <1>1
  <2>2. Append(old, u) \in Seq(T \cup {u}) BY <2>1, Appended
  <2>. QED BY <1>1, <2>2
<1>4. /\ Len(new) = Len(old) + 1 /\ new[Len(old) + 1] = u
      /\ \A i \in 1..Len(old) : new[i] = old[i]
  BY <1>1, <1>3, Appended
<1>5. /\ log' \in Seq(S \cup {u}) /\ Len(log') = Len(log) + 1 /\ log'[Len(log) + 1] = u
      /\ \A i \in 1..Len(log) : log'[i] = log[i]
  BY <1>2, Appended
<1>6. Len(old) \in Nat /\ Len(log) \in Nat /\ account.revision \in Nat BY <1>1, <1>2
<1>7. Base' = Base BY <1>3, <1>4, <1>5, <1>6 DEF Base
<1>8. /\ \A r, d : IsState(r, d) => IsState(r, d)'
      /\ \A a : Shaped(a) => (Past(a) => Past(a)') /\ (Current(a) => Current(a)')
  BY <1>5, <1>6, <1>7, LogGrows DEF LogInv
<1>9. AccountInv'
  <2>1. Shaped(account)' BY <1>3 DEF Shaped
  <2>2. Len(old) =< Len(log) BY DEF LogInv, AccountInv
  <2>3. PICK k \in Nat : k = account.revision - Base /\ k + Len(old) = Len(log)
    BY <1>6, <2>2, LogOf, SMTT(30) DEF LogInv
  <2>4. account'.revision - Base' = k BY <1>3, <1>7, <2>3
  <2>5. IsState(account.revision, account.data) BY DEF LogInv, AccountInv, Current
  <2>6. IsState(account.revision, account.data)' BY <1>3, <1>8, <2>5
  <2>7. k + Len(new) =< Len(log') BY <1>4, <1>5, <1>6, <2>3
  <2>8. ASSUME NEW i \in 1..Len(new) PROVE new[i] = log'[k + i]
    <3>1. CASE i = Len(old) + 1
      <4>1. k + i = Len(log) + 1 BY <1>6, <2>3, <3>1, SMTT(30)
      <4>. QED BY <1>4, <1>5, <3>1, <4>1
    <3>2. CASE i # Len(old) + 1
      <4>1. i \in 1..Len(old) /\ k + i \in 1..Len(log) BY <1>4, <1>6, <2>3, <3>2, SMTT(30)
      <4>2. old[i] = log[k + i] BY <2>3, <4>1 DEF LogInv, AccountInv, Current
      <4>. QED BY <1>4, <1>5, <4>1, <4>2
    <3>. QED BY <3>1, <3>2
  <2>9. Current(account)' BY <2>4, <2>6, <2>7, <2>8 DEF Current
  <2>10. Len(new) =< Len(log') BY <1>4, <1>5, <1>6, <2>2
  <2>. QED BY <1>5, <2>1, <2>9, <2>10 DEF AccountInv
<1>. QED BY <1>3, <1>7, <1>8, <1>9, StaysOf

LEMMA TakesConsolidation ==
  ASSUME LogInv, NEW p, Sound(p), p.kind = "consolidate", Accepts(account, p),
         UNCHANGED <<origin, log>>, account' = Handled(account, p)
  PROVE  AccountInv' /\ StaysSound /\ StaysReadable
<1>1. PICK D, T : account \in [id : D, secret : D, data : D, revision : Nat, patches : Seq(T)]
  BY DEF LogInv, AccountInv, Shaped
<1>2. PICK S : log \in Seq(S) BY DEF LogInv, AccountInv
<1>. DEFINE old == account.patches
            new == account'.patches
            n == p.revision - account.revision
<1>3. p.revision \in Nat /\ n \in 0..Len(old) /\ account.id # None
  BY <1>1 DEF Accepts, Sound, Held
<1>4. account' = [account EXCEPT !.data = p.data, !.revision = p.revision,
                                 !.patches = SubSeq(@, n + 1, Len(@))]
  BY DEF Handled
<1>. HIDE DEF n
<1>5. SubSeq(old, n + 1, Len(old)) \in Seq(T)
      /\ Len(SubSeq(old, n + 1, Len(old))) = Len(old) - n
      /\ \A i \in 1..Len(old) - n : SubSeq(old, n + 1, Len(old))[i] = old[n + i]
  <2>1. old \in Seq(T) BY <1>1
  <2>. QED BY <1>3, <2>1, LastPart
<1>6. /\ new = SubSeq(old, n + 1, Len(old)) /\ account'.revision = p.revision
      /\ account'.data = p.data /\ account.id' = account.id
      /\ account' \in [id : D \cup {p.data}, secret : D \cup {p.data},
                       data : D \cup {p.data}, revision : Nat, patches : Seq(T)]
  BY <1>1, <1>3, <1>4, <1>5
<1>7. Len(old) \in Nat /\ Len(log) \in Nat /\ account.revision \in Nat /\ n \in Int
      /\ p.revision = account.revision + n
  BY <1>1, <1>2, <1>3 DEF n
<1>8. Base' = Base BY <1>5, <1>6, <1>7, SMTT(30) DEF Base
<1>9. \A r, d : IsState(r, d)' <=> IsState(r, d) BY <1>8 DEF IsState
<1>10. \A a : (Past(a)' <=> Past(a)) /\ (Current(a)' <=> Current(a))
  BY <1>8, <1>9 DEF Past, Current
<1>11. AccountInv'
  <2>1. Shaped(account)' BY <1>6 DEF Shaped
  <2>2. Len(old) =< Len(log) BY DEF LogInv, AccountInv
  <2>3. PICK k \in Nat : k = account.revision - Base /\ k + Len(old) = Len(log)
    BY <1>7, <2>2, LogOf DEF LogInv
  <2>4. p.revision - Base = k + n /\ ~(p.revision < Base)
    BY <1>3, <1>7, <2>3, LogOf, SMTT(30) DEF LogInv
  <2>5. IsState(p.revision, p.data) BY <2>4 DEF Sound, Held
  <2>6. k + n + Len(new) =< Len(log) BY <1>5, <1>6, <1>7, <2>3, SMTT(30)
  <2>7. ASSUME NEW i \in 1..Len(new) PROVE new[i] = log[k + n + i]
    <3>1. i \in 1..Len(old) - n /\ n + i \in 1..Len(old) /\ k + n + i = k + (n + i)
      BY <1>3, <1>5, <1>6, <1>7
    <3>2. old[n + i] = log[k + (n + i)] BY <2>3, <3>1 DEF LogInv, AccountInv, Current
    <3>. QED BY <1>5, <1>6, <3>1, <3>2
  <2>8. IsState(account.revision, account.data)' BY <1>6, <1>9, <2>5
  <2>9. account'.revision - Base' = k + n BY <1>6, <1>8, <2>4
  <2>10. Current(account)' BY <2>6, <2>7, <2>8, <2>9 DEF Current
  <2>11. Len(new) =< Len(log) BY <1>3, <1>5, <1>6, <1>7, <2>2
  <2>. QED BY <1>2, <2>1, <2>10, <2>11 DEF AccountInv
<1>12. StaysSound /\ StaysReadable BY <1>6, <1>8, <1>9, <1>10, StaysOf
<1>. QED BY <1>11, <1>12

\* The account is stored whole: no earlier revision is a state of it.
LEMMA TakesWhole ==
  ASSUME LogInv, NEW p, Sound(p), p.kind \in {"create", "keys"}, Accepts(account, p),
         origin' = p.data, log' = <<>>, account' = Handled(account, p)
  PROVE  AccountInv' /\ StaysSound /\ StaysReadable
<1>1. account.revision \in Nat /\ Len(account.patches) \in Nat /\ Len(log) \in Nat
      /\ Base \in Int /\ Base + Len(log) = account.revision + Len(account.patches)
  BY LogOf DEF LogInv
<1>. DEFINE next == account.revision + Len(account.patches)
                      + (IF p.kind = "keys" THEN 1 ELSE 0)
<1>2. account' = [id |-> p.newId, secret |-> p.secret, data |-> p.data,
                  revision |-> next, patches |-> <<>>]
  BY DEF Handled
<1>3. next \in Nat /\ (p.kind = "keys" => next > Base + Len(log)) BY <1>1
<1>4. Base' = next BY <1>2, <1>3 DEF Base
<1>5. account'.id # None /\ (p.kind = "create" => account.id = None)
  BY <1>2 DEF Sound, Accepts
<1>6. AccountInv'
  <2>1. Shaped(account)'
    <3>. DEFINE D == {p.newId, p.secret, p.data}
    <3>1. account' \in [id : D, secret : D, data : D, revision : Nat, patches : Seq({})]
      BY <1>2, <1>3
    <3>. HIDE DEF D
    <3>. QED BY <3>1 DEF Shaped
  <2>2. State(p.data, <<>>, 0) = Done(p.data)
    <3>1. <<>> \in Seq({}) OBVIOUS
    <3>. QED BY <3>1, StateFirst
  <2>3. next - next = 0 /\ Len(<<>>) = 0 /\ 0 \in 0..0 BY <1>3
  <2>4. IsState(account.revision, account.data)'
    BY <1>2, <1>4, <2>2, <2>3 DEF IsState, State, Done
  <2>5. Current(account)' BY <1>2, <1>4, <2>3, <2>4 DEF Current
  <2>6. log' \in Seq({}) OBVIOUS
  <2>7. Len(account.patches)' =< Len(log)' BY <1>2, <2>3
  <2>. QED BY <2>1, <2>5, <2>6, <2>7 DEF AccountInv
<1>7. ASSUME account.id # None
      PROVE  /\ \A r \in Nat : \A d : r < Base \/ IsState(r, d) => r < Base'
             /\ \A a : Shaped(a) /\ (Past(a) \/ Current(a)) => Past(a)'
  <2>1. next > Base + Len(log) /\ next > Base BY <1>1, <1>3, <1>5, <1>7
  <2>2. ASSUME NEW r \in Nat, NEW d, IsState(r, d) PROVE r < next
    <3>1. r - Base =< Len(log) BY <1>1, <2>2 DEF IsState
    <3>. QED BY <1>1, <1>3, <2>1, <3>1
  <2>3. ASSUME NEW a, Shaped(a), Past(a) \/ Current(a) PROVE a.revision + Len(a.patches) < next
    <3>1. a.revision \in Nat /\ Len(a.patches) \in Nat BY <2>3 DEF Shaped
    <3>2. CASE Past(a) BY <1>1, <1>3, <2>1, <3>1, <3>2 DEF Past
    <3>3. CASE Current(a)
      <4>1. a.revision - Base + Len(a.patches) =< Len(log) BY <3>3 DEF Current
      <4>. QED BY <1>1, <1>3, <2>1, <3>1, <4>1
    <3>. QED BY <2>3, <3>2, <3>3
  <2>. QED BY <1>1, <1>3, <1>4, <2>1, <2>2, <2>3 DEF Past
<1>8. StaysSound /\ StaysReadable BY <1>5, <1>7, StaysOf
<1>. QED BY <1>6, <1>8

LEMMA ArrivesStays ==
  ASSUME LogInv, NEW b \in Blobs, NEW i \in 1..Len(flight[b]), NEW lost \in BOOLEAN,
         Arrives(b, i, lost)
  PROVE  AccountInv' /\ StaysSound /\ StaysReadable
<1>1. PICK p : p = flight[b][i] OBVIOUS
<1>2. Sound(p) BY <1>1 DEF LogInv, FlightInv
<1>3. /\ Accepts(account, p) /\ account' = Handled(account, p)
      /\ origin' = IF p.kind \in {"create", "keys"} THEN p.data ELSE origin
      /\ log' = CASE p.kind \in {"create", "keys"} -> <<>>
                  [] p.kind = "patch" -> Append(log, p.update)
                  [] OTHER -> log
  BY <1>1 DEF Arrives
<1>4. CASE p.kind \in {"create", "keys"}
  <2>1. log' = <<>> BY <1>3, <1>4
  <2>. QED BY <1>2, <1>3, <1>4, <2>1, TakesWhole
<1>5. CASE p.kind = "patch"
  <2>1. account' = [account EXCEPT !.patches = Append(@, p.update)]
    BY <1>3, <1>5 DEF Handled
  <2>2. log' = Append(log, p.update) /\ origin' = origin BY <1>3, <1>5
  <2>. QED BY <2>1, <2>2, TakesPatch
<1>6. CASE p.kind = "consolidate"
  <2>1. log' = log /\ origin' = origin BY <1>3, <1>6
  <2>. QED BY <1>2, <1>3, <1>6, <2>1, TakesConsolidation
<1>. QED BY <1>2, <1>4, <1>5, <1>6 DEF Sound

LEMMA LogArrives ==
  ASSUME LogInv, NEW b \in Blobs, NEW i \in 1..Len(flight[b]), NEW lost \in BOOLEAN,
         Arrives(b, i, lost)
  PROVE  LogInv'
<1>1. flight' = [flight EXCEPT ![b] = RemoveAt(@, i)] /\ UNCHANGED fetched
  BY DEF Arrives
<1>2. AccountInv' /\ StaysSound /\ StaysReadable BY ArrivesStays
<1>3. FlightInv' BY <1>1, <1>2, FlightRemoves DEF LogInv
<1>4. FetchedInv' BY <1>1, <1>2, FetchedStays DEF LogInv
<1>. QED BY <1>2, <1>3, <1>4 DEF LogInv

LEMMA LogFails ==
  ASSUME LogInv, NEW b \in Blobs, NEW i \in 1..Len(flight[b]), Fails(b, i)
  PROVE  LogInv'
<1>1. /\ flight' = [flight EXCEPT ![b] = RemoveAt(@, i)]
      /\ UNCHANGED <<account, origin, log, fetched>>
  BY DEF Fails
<1>2. StaysSound /\ StaysReadable /\ AccountInv' BY <1>1, Nothing DEF LogInv
<1>. QED BY <1>1, <1>2, FlightRemoves, FetchedStays DEF LogInv

LEMMA LogReplied ==
  ASSUME LogInv, NEW b \in Blobs, Replied(b) PROVE LogInv'
<1>1. UNCHANGED <<account, origin, log, fetched>> BY DEF Replied
<1>2. CASE UNCHANGED flight BY <1>1, <1>2, LogStays
<1>3. CASE Update(b, FieldUpdate(Head(replies[b]).then), None)
  BY <1>1, <1>3, LogUpdates
<1>. QED BY <1>2, <1>3 DEF Replied

LEMMA LogStart == ASSUME Init PROVE LogInv
<1>1. /\ account = NoAccount /\ origin = Obj(<<>>) /\ log = <<>>
      /\ flight = [b \in Blobs |-> <<>>] /\ fetched = [b \in Blobs |-> NoAccount]
  BY DEF Init
<1>2. PICK d : d = Obj(<<>>) OBVIOUS
<1>3. NoAccount = [id |-> None, secret |-> None, data |-> d, revision |-> 0,
                   patches |-> <<>>]
  BY <1>2 DEF NoAccount
<1>4. AccountInv
  <2>1. account \in [id : {None, d}, secret : {None, d}, data : {None, d},
                     revision : Nat, patches : Seq({})]
    BY <1>1, <1>3
  <2>2. Base = 0 /\ 0 - 0 = 0 /\ Len(<<>>) = 0 BY <1>1, <1>3 DEF Base
  <2>3. State(d, <<>>, 0) = Done(d)
    <3>1. <<>> \in Seq({}) OBVIOUS
    <3>. QED BY <3>1, StateFirst
  <2>4. IsState(account.revision, account.data)
    BY <1>1, <1>2, <1>3, <2>2, <2>3 DEF IsState, Done
  <2>5. Current(account) BY <1>1, <1>3, <2>2, <2>4 DEF Current
  <2>6. log \in Seq({}) BY <1>1
  <2>7. Len(account.patches) =< Len(log) BY <1>1, <1>3
  <2>. QED BY <2>1, <2>5, <2>6, <2>7 DEF AccountInv, Shaped
<1>5. FetchedInv
  <2>1. fetched \in [Blobs -> {NoAccount}] BY <1>1
  <2>. QED BY <1>1, <2>1 DEF FetchedInv
<1>6. FlightInv
  <2>1. flight \in [Blobs -> Seq({})] BY <1>1
  <2>. QED BY <1>1, <2>1 DEF FlightInv
<1>. QED BY <1>4, <1>5, <1>6 DEF LogInv

-----------------------------------------------------------------------------
(* What the requests of a blob will make of the account.                     *)

\* The account says m: the keys, and the document that a login reads.
Says(a, m) ==
  /\ a.id = m.id /\ a.secret = m.secret
  /\ Decrypted(a).ok /\ Decrypted(a).doc = m.doc

\* A request makes n of m.
StepsTo(m, p, n) ==
  \/ p.kind = "consolidate" /\ n = m
  \/ /\ p.kind = "patch" /\ p.id = m.id /\ Apply(m.doc, p.update).ok
     /\ n = [id |-> m.id, secret |-> m.secret, doc |-> Apply(m.doc, p.update).doc]
  \/ /\ p.kind = "keys" /\ p.id = m.id
     /\ n = [id |-> p.newId, secret |-> p.secret, doc |-> p.data]

Steps(run, requests) ==
  \A i \in 1..Len(requests) : StepsTo(run[i - 1], requests[i], run[i])

\* What the blob holds.
Holds(b, m) ==
  /\ m.id = b.id /\ (m.secret = b.secret \/ b.typo # None)
  /\ m.doc = b.data

\* The requests of b lead from the account to what b holds.
Leads(b) ==
  \E run : /\ Says(account, run[0]) /\ Steps(run, flight[b])
           /\ Holds(blob[b], run[Len(flight[b])])

\* A consolidation fits an account whose revision it replaces, and is of none
\* to come.
Right(a, p) ==
  p.kind = "consolidate" =>
    /\ p.revision \in Nat /\ p.revision =< a.revision + Len(a.patches)
    /\ p.revision >= a.revision =>
         /\ State(a.data, a.patches, p.revision - a.revision).ok
         /\ State(a.data, a.patches, p.revision - a.revision).doc = p.data

LEMMA SaysPatch ==
  ASSUME NEW a, Shaped(a), NEW m, Says(a, m), NEW n, NEW p, p.kind = "patch",
         StepsTo(m, p, n)
  PROVE  Says(Handled(a, p), n) /\ Shaped(Handled(a, p))
         /\ \A q : Right(a, q) => Right(Handled(a, p), q)
<1>. DEFINE new == Handled(a, p)
            more == Append(a.patches, p.update)
<1>1. PICK D, S : a \in [id : D, secret : D, data : D, revision : Nat, patches : Seq(S)]
  BY DEF Shaped
<1>2. /\ p.id = a.id /\ Apply(m.doc, p.update).ok
      /\ n = [id |-> m.id, secret |-> m.secret, doc |-> Apply(m.doc, p.update).doc]
  BY DEF StepsTo, Says
<1>3. a.patches \in Seq(S) /\ Len(a.patches) \in Nat /\ a.revision \in Nat BY <1>1
<1>4. more \in Seq(S \cup {p.update}) /\ Len(more) = Len(a.patches) + 1
      /\ \A i \in 1..Len(a.patches) : more[i] = a.patches[i]
  BY <1>3, Appended
<1>5. new = [a EXCEPT !.patches = more] BY <1>2 DEF Handled, Accepts
<1>. HIDE DEF new
<1>6. /\ new.id = a.id /\ new.secret = a.secret /\ new.data = a.data
      /\ new.revision = a.revision /\ new.patches = more /\ Shaped(new)
  BY <1>1, <1>4, <1>5 DEF Shaped
<1>7. Replayed(a.data, more) = Patched(Replayed(a.data, a.patches), p.update)
  BY <1>3, ReplayAppend
<1>. HIDE DEF more
<1>8. Says(new, n)
  BY <1>2, <1>6, <1>7 DEF Says, Decrypted, Patched
<1>9. ASSUME NEW k \in 0..Len(a.patches)
      PROVE  State(a.data, more, k) = State(a.data, a.patches, k)
  <2>1. k \in 0..Len(more) BY <1>3, <1>4
  <2>2. SubSeq(more, 1, k) \in Seq(S \cup {p.update}) /\ Len(SubSeq(more, 1, k)) = k
        /\ \A i \in 1..k : SubSeq(more, 1, k)[i] = more[i]
    BY <1>4, <2>1, FirstPart
  <2>3. SubSeq(a.patches, 1, k) \in Seq(S) /\ Len(SubSeq(a.patches, 1, k)) = k
        /\ \A i \in 1..k : SubSeq(a.patches, 1, k)[i] = a.patches[i]
    BY <1>3, FirstPart
  <2>4. \A i \in 1..k : more[i] = a.patches[i] BY <1>3, <1>4
  <2>5. SubSeq(more, 1, k) = SubSeq(a.patches, 1, k) BY <2>2, <2>3, <2>4, SameList
  <2>. QED BY <2>5 DEF State
<1>10. ASSUME NEW q, Right(a, q) PROVE Right(new, q)
  <2>. SUFFICES ASSUME q.kind = "consolidate" PROVE Right(new, q) BY DEF Right
  <2>1. q.revision \in Nat /\ q.revision =< a.revision + Len(a.patches) BY <1>10 DEF Right
  <2>2. q.revision >= a.revision => q.revision - a.revision \in 0..Len(a.patches)
    BY <1>3, <2>1
  <2>3. q.revision =< new.revision + Len(new.patches) BY <1>3, <1>4, <1>6, <2>1
  <2>. QED BY <1>6, <1>9, <1>10, <2>1, <2>2, <2>3 DEF Right
<1>. QED BY <1>6, <1>8, <1>10 DEF new

LEMMA SaysKeys ==
  ASSUME NEW a, Shaped(a), NEW m, Says(a, m), NEW n, NEW p, p.kind = "keys",
         StepsTo(m, p, n)
  PROVE  Says(Handled(a, p), n) /\ Shaped(Handled(a, p))
         /\ \A q : Right(a, q) => Right(Handled(a, p), q)
<1>1. a.revision \in Nat /\ Len(a.patches) \in Nat BY DEF Shaped
<1>2. p.id = a.id /\ n = [id |-> p.newId, secret |-> p.secret, doc |-> p.data]
  BY DEF StepsTo, Says
<1>3. PICK new : new = Handled(a, p) OBVIOUS
<1>4. new = [id |-> p.newId, secret |-> p.secret, data |-> p.data,
             revision |-> a.revision + Len(a.patches) + 1, patches |-> <<>>]
  BY <1>2, <1>3 DEF Handled, Accepts
<1>5. Shaped(new)
  <2>. DEFINE D == {p.newId, p.secret, p.data}
  <2>1. new \in [id : D, secret : D, data : D, revision : Nat, patches : Seq({})]
    BY <1>1, <1>4
  <2>. HIDE DEF D
  <2>. QED BY <2>1 DEF Shaped
<1>6. Says(new, n)
  <2>1. <<>> \in Seq({}) /\ Len(<<>>) = 0 OBVIOUS
  <2>2. State(p.data, <<>>, 0) = Done(p.data) /\ State(p.data, <<>>, 0) = Replayed(p.data, <<>>)
    BY <2>1, StateFirst, StateLast
  <2>. QED BY <1>2, <1>4, <2>2 DEF Says, Decrypted, Done
<1>7. ASSUME NEW q, Right(a, q) PROVE Right(new, q)
  BY <1>1, <1>4, <1>7 DEF Right
<1>. QED BY <1>3, <1>5, <1>6, <1>7

LEMMA SaysConsolidation ==
  ASSUME NEW a, Shaped(a), NEW m, Says(a, m), NEW p, p.kind = "consolidate", Right(a, p)
  PROVE  Says(Handled(a, p), m) /\ Shaped(Handled(a, p))
         /\ \A q : Right(a, q) => Right(Handled(a, p), q)
<1>1. CASE ~Accepts(a, p)
  <2>1. Handled(a, p) = a BY <1>1 DEF Handled
  <2>. QED BY <2>1
<1>2. CASE Accepts(a, p)
  <2>1. PICK D, S : a \in [id : D, secret : D, data : D, revision : Nat, patches : Seq(S)]
    BY DEF Shaped
  <2>. DEFINE list == a.patches
              k == p.revision - a.revision
              rest == SubSeq(list, k + 1, Len(list))
  <2>2. list \in Seq(S) /\ Len(list) \in Nat /\ a.revision \in Nat /\ p.revision \in Nat
    BY <2>1 DEF Right
  <2>3. k \in 0..Len(list) BY <1>2, <2>2 DEF Accepts
  <2>4. State(a.data, list, k).ok /\ State(a.data, list, k).doc = p.data
    BY <2>2, <2>3 DEF Right
  <2>5. PICK new : new = Handled(a, p) OBVIOUS
  <2>6. new = [a EXCEPT !.data = p.data, !.revision = p.revision, !.patches = rest]
    BY <1>2, <2>5 DEF Handled
  <2>. HIDE DEF k
  <2>7. rest \in Seq(S) /\ Len(rest) = Len(list) - k
        /\ \A i \in 1..Len(list) - k : rest[i] = list[k + i]
    BY <2>2, <2>3, LastPart
  <2>. HIDE DEF rest
  <2>8. new.id = a.id /\ new.secret = a.secret /\ new.data = p.data
        /\ new.revision = p.revision /\ new.patches = rest
    BY <2>1, <2>6
  <2>9. Shaped(new)
    <3>. DEFINE E == D \cup {p.data}
    <3>1. new \in [id : E, secret : E, data : E, revision : Nat, patches : Seq(S)]
      BY <2>1, <2>2, <2>6, <2>7
    <3>. HIDE DEF E
    <3>. QED BY <3>1 DEF Shaped
  <2>10. ASSUME NEW n \in 0..Len(list) - k
         PROVE  Alike(State(p.data, rest, n), State(a.data, list, k + n))
    <3>. DEFINE some == SubSeq(rest, 1, n)
    <3>1. n \in 0..Len(rest) BY <2>7
    <3>2. some \in Seq(S) /\ Len(some) = n /\ \A i \in 1..n : some[i] = rest[i]
      BY <2>7, <3>1, FirstPart
    <3>3. State(p.data, rest, n) = Replayed(p.data, some) BY DEF State
    <3>. HIDE DEF some
    <3>4. Len(some) =< Len(list) - k BY <2>2, <2>3, <3>2
    <3>5. \A i \in 1..Len(some) : some[i] = list[k + i] BY <2>7, <3>2, <2>2, <2>3, SMTT(60)
    <3>6. Alike(Replayed(p.data, some), State(a.data, list, k + Len(some)))
      BY <2>2, <2>3, <2>4, <3>2, <3>4, <3>5, ReplaySplit
    <3>. QED BY <3>2, <3>3, <3>6
  <2>11. Says(new, m)
    <3>1. Len(list) - k \in 0..Len(list) - k /\ k + (Len(list) - k) = Len(list)
      BY <2>2, <2>3
    <3>2. Alike(State(p.data, rest, Len(rest)), State(a.data, list, Len(list)))
      BY <2>7, <2>10, <3>1
    <3>3. State(p.data, rest, Len(rest)) = Decrypted(new)
      BY <2>7, <2>8, StateLast DEF Decrypted
    <3>4. State(a.data, list, Len(list)) = Decrypted(a) BY <2>2, StateLast DEF Decrypted
    <3>. QED BY <2>8, <3>2, <3>3, <3>4 DEF Says, Alike
  <2>12. ASSUME NEW q, Right(a, q) PROVE Right(new, q)
    <3>. SUFFICES ASSUME q.kind = "consolidate" PROVE Right(new, q) BY DEF Right
    <3>1. q.revision \in Nat /\ q.revision =< a.revision + Len(list) BY <2>12 DEF Right
    <3>2. p.revision = a.revision + k BY <2>2 DEF k
    <3>3. q.revision =< new.revision + Len(new.patches)
      BY <2>2, <2>3, <2>7, <2>8, <3>1, <3>2
    <3>4. ASSUME q.revision >= new.revision
          PROVE  State(new.data, new.patches, q.revision - new.revision).ok
                 /\ State(new.data, new.patches, q.revision - new.revision).doc = q.data
      <4>. DEFINE n == q.revision - new.revision
      <4>1. n \in 0..Len(list) - k /\ q.revision - a.revision = k + n
            /\ q.revision >= a.revision
        BY <2>2, <2>3, <2>8, <3>1, <3>2, <3>4
      <4>2. State(a.data, list, k + n).ok /\ State(a.data, list, k + n).doc = q.data
        BY <2>12, <4>1 DEF Right
      <4>3. Alike(State(p.data, rest, n), State(a.data, list, k + n)) BY <2>10, <4>1
      <4>. QED BY <2>8, <4>2, <4>3 DEF Alike
    <3>. QED BY <3>1, <3>3, <3>4 DEF Right
  <2>. QED BY <2>5, <2>9, <2>11, <2>12
<1>. QED BY <1>1, <1>2

\* One more request.
LEMMA SaysNext ==
  ASSUME NEW a, Shaped(a), NEW m, Says(a, m), NEW p, NEW n, StepsTo(m, p, n), Right(a, p)
  PROVE  Says(Handled(a, p), n) /\ Shaped(Handled(a, p))
         /\ \A q : Right(a, q) => Right(Handled(a, p), q)
<1>1. CASE p.kind = "patch" BY <1>1, SaysPatch
<1>2. CASE p.kind = "keys" BY <1>2, SaysKeys
<1>3. CASE p.kind = "consolidate"
  <2>1. n = m BY <1>3 DEF StepsTo
  <2>. QED BY <1>3, <2>1, SaysConsolidation
<1>. QED BY <1>1, <1>2, <1>3 DEF StepsTo

\* The consolidations under way are right.
LEMMA RightOf ==
  ASSUME AccountInv, NEW p, Sound(p)
  PROVE  Right(account, p)
<1>. SUFFICES ASSUME p.kind = "consolidate" PROVE Right(account, p) BY DEF Right
<1>1. PICK S : log \in Seq(S) BY DEF AccountInv
<1>2. PICK T : account.patches \in Seq(T) BY DEF AccountInv, Shaped
<1>. DEFINE list == account.patches
<1>3. Len(list) \in Nat /\ Len(list) =< Len(log) BY LogOf DEF AccountInv
<1>4. PICK k \in Nat : k = account.revision - Base /\ k + Len(list) = Len(log)
  BY <1>3, LogOf
<1>5. p.revision \in Nat /\ (p.revision < Base \/ IsState(p.revision, p.data))
  BY DEF Sound, Held
<1>6. p.revision =< account.revision + Len(list)
  <2>1. CASE p.revision < Base BY <1>3, <1>4, <1>5, <2>1, LogOf
  <2>2. CASE IsState(p.revision, p.data)
    <3>1. p.revision - Base \in 0..Len(log) BY <2>2 DEF IsState
    <3>. QED BY <1>3, <1>4, <1>5, <3>1, LogOf
  <2>. QED BY <1>5, <2>1, <2>2
<1>7. ASSUME p.revision >= account.revision
      PROVE  State(account.data, list, p.revision - account.revision).ok
             /\ State(account.data, list, p.revision - account.revision).doc = p.data
  <2>. DEFINE n == p.revision - account.revision
              some == SubSeq(list, 1, n)
  <2>0. Base \in Int /\ account.revision \in Nat /\ account.revision = Base + k
    BY <1>4, LogOf
  <2>1. ~(p.revision < Base) /\ n \in 0..Len(list) /\ p.revision - Base = k + n
    <3>1. PICK r \in Nat : r = p.revision BY <1>5
    <3>2. PICK e \in Int : e = Base BY <2>0
    <3>3. PICK f \in Nat : f = account.revision BY <2>0
    <3>4. PICK l \in Nat : l = Len(list) BY <1>3
    <3>5. f = e + k /\ f =< r /\ r =< f + l BY <1>6, <1>7, <2>0, <3>1, <3>2, <3>3, <3>4
    <3>6. ~(r < e) BY <3>5
    <3>7. r - f \in 0..l BY <3>5
    <3>8. r - e = k + (r - f) BY <3>5
    <3>. QED BY <3>1, <3>2, <3>3, <3>4, <3>6, <3>7, <3>8
  <2>2. State(origin, log, k + n).ok /\ State(origin, log, k + n).doc = p.data
    BY <1>5, <2>1 DEF IsState
  <2>3. some \in Seq(T) /\ Len(some) = n /\ \A i \in 1..n : some[i] = list[i]
    BY <1>2, <2>1, FirstPart
  <2>4. State(account.data, list, n) = Replayed(account.data, some) BY DEF State
  <2>. HIDE DEF some
  <2>5. k \in 0..Len(log) /\ State(origin, log, k).ok /\ State(origin, log, k).doc = account.data
    BY <1>1, <1>3, <1>4 DEF AccountInv, Current, IsState
  <2>6. \A i \in 1..Len(list) : list[i] = log[k + i] BY <1>4 DEF AccountInv, Current
  <2>7. ASSUME NEW i \in 1..Len(some) PROVE some[i] = log[k + i]
    <3>1. i \in 1..n /\ i \in 1..Len(list) BY <1>3, <2>1, <2>3
    <3>. QED BY <2>3, <2>6, <3>1
  <2>8. Len(some) =< Len(log) - k BY <1>3, <1>4, <2>1, <2>3
  <2>9. Alike(Replayed(account.data, some), State(origin, log, k + Len(some)))
    BY <1>1, <2>3, <2>5, <2>7, <2>8, ReplaySplit
  <2>. QED BY <2>2, <2>3, <2>4, <2>9 DEF Alike
<1>. QED BY <1>5, <1>6, <1>7 DEF Right

\* The account after each of the first N requests.
SettleTo(g, a, requests, N) ==
  /\ g = [n \in 0..N |-> g[n]]
  /\ g[0] = a
  /\ \A n \in 1..N : g[n] = Handled(g[n - 1], requests[n])

LEMMA SettleExists ==
  ASSUME NEW a, NEW S, NEW requests \in Seq(S), NEW N \in 0..Len(requests)
  PROVE  \E g : SettleTo(g, a, requests, N)
<1>. DEFINE Is(g, m) == SettleTo(g, a, requests, m)
            I == {m \in Nat : \E g : Is(g, m)}
<1>1. \E g : Is(g, 0)
  <2>. DEFINE g == [n \in 0..0 |-> a]
  <2>1. Is(g, 0) BY DEF SettleTo
  <2>. QED BY <2>1
<1>2. ASSUME NEW m \in 1..N, NEW g, Is(g, m - 1) PROVE \E h : Is(h, m)
  <2>. DEFINE h == [n \in 0..m |-> IF n = m THEN Handled(g[m - 1], requests[m]) ELSE g[n]]
  <2>1. h = [n \in 0..m |-> h[n]] OBVIOUS
  <2>2. h[0] = a BY <1>2 DEF SettleTo
  <2>3. ASSUME NEW n \in 1..m PROVE h[n] = Handled(h[n - 1], requests[n])
    <3>1. n \in 0..m /\ n - 1 \in 0..m /\ n - 1 # m OBVIOUS
    <3>2. CASE n = m BY <3>1, <3>2
    <3>3. CASE n # m
      <4>1. n \in 1..m - 1 BY <3>3
      <4>. QED BY <1>2, <3>1, <3>3, <4>1 DEF SettleTo
    <3>. QED BY <3>2, <3>3
  <2>. HIDE DEF h
  <2>. QED BY <2>1, <2>2, <2>3 DEF SettleTo
<1>3. \A m \in 0..N : m \in I
  <2>1. 0 \in I BY <1>1
  <2>2. \A m \in 1..N : m - 1 \in I => m \in I
    <3>. SUFFICES ASSUME NEW m \in 1..N, m - 1 \in I PROVE m \in I OBVIOUS
    <3>1. PICK g : Is(g, m - 1) OBVIOUS
    <3>. QED BY <1>2, <3>1
  <2>. HIDE DEF I
  <2>. QED BY <2>1, <2>2, Upward
<1>. QED
  <2>1. N \in 0..N OBVIOUS
  <2>. QED BY <1>3, <2>1

LEMMA SettledRuns ==
  ASSUME NEW a, NEW S, NEW requests \in Seq(S)
  PROVE  \E g : SettleTo(g, a, requests, Len(requests))
                /\ Settled(a, requests) = g[Len(requests)]
<1>. DEFINE Def(g, n) == IF n = 0 THEN a ELSE Handled(g[n - 1], requests[n])
            after == CHOOSE g : g = [n \in 0..Len(requests) |-> Def(g, n)]
<1>1. \E g : g = [n \in 0..Len(requests) |-> Def(g, n)]
  <2>1. Len(requests) \in 0..Len(requests) OBVIOUS
  <2>2. PICK g : SettleTo(g, a, requests, Len(requests)) BY <2>1, SettleExists
  <2>3. \A n \in 0..Len(requests) : g[n] = Def(g, n) BY <2>2 DEF SettleTo
  <2>4. g = [n \in 0..Len(requests) |-> Def(g, n)] BY <2>2, <2>3 DEF SettleTo
  <2>. QED BY <2>4
<1>2. after = [n \in 0..Len(requests) |-> Def(after, n)] BY <1>1
<1>3. Settled(a, requests) = after[Len(requests)] BY DEF Settled
<1>. HIDE DEF after
<1>4. after[0] = a BY <1>2
<1>5. ASSUME NEW n \in 1..Len(requests) PROVE after[n] = Handled(after[n - 1], requests[n])
  <2>1. n \in 0..Len(requests) /\ n # 0 OBVIOUS
  <2>2. after[n] = Def(after, n) BY <1>2, <2>1
  <2>. QED BY <2>1, <2>2
<1>6. after = [n \in 0..Len(requests) |-> after[n]] BY <1>2
<1>. QED BY <1>3, <1>4, <1>5, <1>6 DEF SettleTo

\* All the requests one after the other.
LEMMA SettledSays ==
  ASSUME NEW a, Shaped(a), NEW S, NEW requests \in Seq(S), NEW run,
         Says(a, run[0]), Steps(run, requests),
         \A i \in 1..Len(requests) : Right(a, requests[i])
  PROVE  Says(Settled(a, requests), run[Len(requests)])
<1>1. PICK g : /\ SettleTo(g, a, requests, Len(requests))
               /\ Settled(a, requests) = g[Len(requests)]
  BY SettledRuns
<1>. DEFINE Good(n) == /\ Says(g[n], run[n]) /\ Shaped(g[n])
                       /\ \A i \in 1..Len(requests) : Right(g[n], requests[i])
            I == {n \in Nat : Good(n)}
<1>2. 0 \in I BY <1>1 DEF SettleTo
<1>3. ASSUME NEW n \in 1..Len(requests), n - 1 \in I PROVE n \in I
  <2>1. g[n] = Handled(g[n - 1], requests[n]) BY <1>1 DEF SettleTo
  <2>2. StepsTo(run[n - 1], requests[n], run[n]) BY DEF Steps
  <2>3. Good(n - 1) BY <1>3
  <2>4. Good(n) BY <2>1, <2>2, <2>3, SaysNext
  <2>. QED BY <2>4
<1>4. Len(requests) \in Nat OBVIOUS
<1>5. \A n \in 0..Len(requests) : n \in I
  <2>. HIDE DEF I
  <2>. QED BY <1>2, <1>3, <1>4, Upward
<1>. QED BY <1>1, <1>4, <1>5

LEMMA LeadsInStep ==
  ASSUME LogInv, \A b \in Blobs : inStep[b] => Leads(b)
  PROVE  InStep
<1>. SUFFICES ASSUME NEW b \in Blobs, inStep[b], NEW end, end = Settled(account, flight[b])
              PROVE  /\ end.id = blob[b].id
                     /\ end.secret = blob[b].secret \/ blob[b].typo # None
                     /\ Decrypted(end).doc = blob[b].data
  BY DEF InStep
<1>1. PICK run : /\ Says(account, run[0]) /\ Steps(run, flight[b])
                 /\ Holds(blob[b], run[Len(flight[b])])
  BY DEF Leads
<1>2. PICK F : flight[b] \in Seq(F) BY DEF LogInv, FlightInv
<1>3. AccountInv /\ Shaped(account) BY DEF LogInv, AccountInv
<1>4. \A i \in 1..Len(flight[b]) : Right(account, flight[b][i])
  BY <1>3, RightOf DEF LogInv, FlightInv
<1>5. Says(end, run[Len(flight[b])]) BY <1>1, <1>2, <1>3, <1>4, SettledSays
<1>. QED BY <1>1, <1>5 DEF Says, Holds

-----------------------------------------------------------------------------
(* How requests and blobs keep together.                                     *)

\* Before the account's answer a blob waits for one thing only.
Stage(b) ==
  /\ inStep[b] => Loaded(b)
  /\ fetched[b] # NoAccount =>
       fetched[b].id # None /\ ~Loaded(b) /\ flight[b] = <<>> /\ replies[b] = <<>>
  /\ \A i \in 1..Len(flight[b]) : flight[b][i].then \in Keys =>
       ~Loaded(b) /\ Len(flight[b]) = 1 /\ replies[b] = <<>>
  /\ \A i \in 1..Len(replies[b]) : replies[b][i].then \in Keys =>
       ~Loaded(b) /\ flight[b] = <<>> /\ Len(replies[b]) = 1

Typed ==
  /\ \E B : blob \in [Blobs -> [id : B, secret : B, typo : B, data : B, revision : B]]
  /\ \E R : replies \in [Blobs -> Seq(R)]
  /\ inStep \in [Blobs -> BOOLEAN]

StepInv ==
  /\ LogInv /\ Typed
  /\ \A b \in Blobs : Stage(b) /\ (inStep[b] => Leads(b))

\* What another blob's step leaves alone.
Left(b) ==
  /\ blob'[b] = blob[b] /\ flight'[b] = flight[b] /\ replies'[b] = replies[b]
  /\ fetched'[b] = fetched[b] /\ (inStep'[b] => inStep[b])

LEMMA LeftAlone ==
  ASSUME NEW b \in Blobs, Left(b), Stage(b)
  PROVE  Stage(b)'
BY DEF Left, Stage, Loaded

LEMMA LeadsStill ==
  ASSUME NEW b \in Blobs, Leads(b), UNCHANGED account,
         blob'[b] = blob[b], flight'[b] = flight[b]
  PROVE  Leads(b)'
BY DEF Leads

\* The run with one state more.
Further(run, k, n) == [j \in 0..k + 1 |-> IF j = k + 1 THEN n ELSE run[j]]

LEMMA LeadsFurther ==
  ASSUME NEW b \in Blobs, NEW F, flight[b] \in Seq(F), UNCHANGED account,
         NEW run, Says(account, run[0]), Steps(run, flight[b]),
         NEW p, flight'[b] = Append(flight[b], p),
         NEW n, StepsTo(run[Len(flight[b])], p, n), Holds(blob'[b], n)
  PROVE  Leads(b)'
<1>. DEFINE k == Len(flight[b])
<1>1. k \in Nat OBVIOUS
<1>2. PICK more : more = Further(run, k, n) OBVIOUS
<1>3. more[k + 1] = n /\ \A j \in 0..k : more[j] = run[j] BY <1>1, <1>2 DEF Further
<1>4. Len(flight'[b]) = k + 1 /\ flight'[b][k + 1] = p
      /\ \A i \in 1..k : flight'[b][i] = flight[b][i]
  BY Appended
<1>. HIDE DEF k
<1>5. ASSUME NEW i \in 1..k + 1 PROVE StepsTo(more[i - 1], flight'[b][i], more[i])
  <2>1. CASE i = k + 1
    <3>1. i - 1 = k /\ k \in 0..k BY <1>1, <2>1
    <3>. QED BY <1>3, <1>4, <2>1, <3>1 DEF k
  <2>2. CASE i # k + 1
    <3>1. i \in 1..k /\ i - 1 \in 0..k /\ i \in 0..k BY <1>1, <2>2
    <3>2. StepsTo(run[i - 1], flight[b][i], run[i]) BY <3>1 DEF Steps, k
    <3>. QED BY <1>3, <1>4, <3>1, <3>2
  <2>. QED BY <2>1, <2>2
<1>6. Steps(more, flight'[b]) BY <1>4, <1>5 DEF Steps
<1>7. Says(account', more[0])
  <2>1. 0 \in 0..k BY <1>1
  <2>. QED BY <1>3, <2>1
<1>. QED BY <1>3, <1>4, <1>6, <1>7 DEF Leads

\* The run without its i-th request, which changes nothing.
Skipping(run, i, N) == [j \in 0..N |-> IF j < i THEN run[j] ELSE run[j + 1]]

LEMMA RunSkips ==
  ASSUME NEW S, NEW list \in Seq(S), NEW run, Steps(run, list), NEW i \in 1..Len(list),
         list[i].kind = "consolidate"
  PROVE  \E new : /\ new[0] = run[0] /\ new[Len(list) - 1] = run[Len(list)]
                  /\ Steps(new, RemoveAt(list, i))
<1>. DEFINE N == Len(list) - 1
            less == RemoveAt(list, i)
<1>1. N \in Nat /\ i \in 1..N + 1 OBVIOUS
<1>2. Len(less) = N /\ \A k \in 1..N : less[k] = list[IF k < i THEN k ELSE k + 1]
  BY RemovedAt
<1>3. run[i] = run[i - 1] BY DEF Steps, StepsTo
<1>4. \A k \in 1..N + 1 : StepsTo(run[k - 1], list[k], run[k]) BY DEF Steps
<1>5. PICK new : new = Skipping(run, i, N) OBVIOUS
<1>. HIDE DEF N, less
<1>6. \A j \in 0..N : new[j] = IF j < i THEN run[j] ELSE run[j + 1] BY <1>5 DEF Skipping
<1>7. ASSUME NEW k \in 1..N PROVE StepsTo(new[k - 1], less[k], new[k])
  <2>1. k \in 0..N /\ k - 1 \in 0..N /\ (k - 1) + 1 = k BY <1>1
  <2>2. CASE k < i
    <3>1. k - 1 < i /\ k \in 1..N + 1 BY <1>1, <2>2
    <3>2. new[k] = run[k] /\ new[k - 1] = run[k - 1] /\ less[k] = list[k]
      BY <1>2, <1>6, <2>1, <2>2, <3>1
    <3>. QED BY <1>4, <3>1, <3>2
  <2>3. CASE ~(k < i)
    <3>1. k + 1 \in 1..N + 1 /\ (k + 1) - 1 = k BY <1>1
    <3>2. new[k] = run[k + 1] /\ less[k] = list[k + 1] BY <1>2, <1>6, <2>1, <2>3
    <3>3. new[k - 1] = run[k]
      <4>1. CASE k = i BY <1>3, <1>6, <2>1, <4>1
      <4>2. CASE k # i
        <5>1. ~(k - 1 < i) BY <1>1, <2>3, <4>2
        <5>. QED BY <1>6, <2>1, <5>1
      <4>. QED BY <4>1, <4>2
    <3>. QED BY <1>4, <3>1, <3>2, <3>3
  <2>. QED BY <2>2, <2>3
<1>8. new[0] = run[0]
  <2>1. 0 \in 0..N /\ 0 < i BY <1>1
  <2>. QED BY <1>6, <2>1
<1>9. new[N] = run[N + 1]
  <2>1. N \in 0..N BY <1>1
  <2>2. CASE N < i
    <3>1. i = N + 1 /\ i - 1 = N BY <1>1, <2>2
    <3>. QED BY <1>3, <1>6, <2>1, <2>2, <3>1
  <2>3. CASE ~(N < i) BY <1>6, <2>1, <2>3
  <2>. QED BY <2>2, <2>3
<1>10. N + 1 = Len(list) BY DEF N
<1>. QED BY <1>2, <1>7, <1>8, <1>9, <1>10 DEF Steps, N, less

\* The run once its i-th request arrived before others that change nothing.
Ahead(run, i, N) == [j \in 0..N |-> IF j < i THEN run[i] ELSE run[j + 1]]

LEMMA RunAhead ==
  ASSUME NEW S, NEW list \in Seq(S), NEW run, Steps(run, list), NEW i \in 1..Len(list),
         \A j \in 1..i - 1 : list[j].kind = "consolidate"
  PROVE  /\ StepsTo(run[0], list[i], run[i])
         /\ \E new : /\ new[0] = run[i] /\ new[Len(list) - 1] = run[Len(list)]
                     /\ Steps(new, RemoveAt(list, i))
<1>. DEFINE N == Len(list) - 1
            less == RemoveAt(list, i)
<1>1. N \in Nat /\ i \in 1..N + 1 OBVIOUS
<1>2. Len(less) = N /\ \A k \in 1..N : less[k] = list[IF k < i THEN k ELSE k + 1]
  BY RemovedAt
<1>3. \A k \in 1..N + 1 : StepsTo(run[k - 1], list[k], run[k]) BY DEF Steps
<1>4. run[i - 1] = run[0]
  <2>. DEFINE I == {j \in Nat : run[j] = run[0]}
  <2>1. 0 \in I OBVIOUS
  <2>2. ASSUME NEW j \in 1..i - 1, j - 1 \in I PROVE j \in I
    <3>1. j \in 1..N + 1 BY <1>1
    <3>2. StepsTo(run[j - 1], list[j], run[j]) BY <1>3, <3>1
    <3>3. run[j] = run[j - 1] BY <3>2 DEF StepsTo
    <3>. QED BY <2>2, <3>3
  <2>3. i - 1 \in Nat /\ i - 1 \in 0..i - 1 BY <1>1
  <2>4. \A j \in 0..i - 1 : j \in I
    <3>. HIDE DEF I
    <3>. QED BY <2>1, <2>2, <2>3, Upward
  <2>. QED BY <2>3, <2>4
<1>5. PICK new : new = Ahead(run, i, N) OBVIOUS
<1>. HIDE DEF N, less
<1>6. \A j \in 0..N : new[j] = IF j < i THEN run[i] ELSE run[j + 1] BY <1>5 DEF Ahead
<1>7. ASSUME NEW k \in 1..N PROVE StepsTo(new[k - 1], less[k], new[k])
  <2>1. k \in 0..N /\ k - 1 \in 0..N /\ (k - 1) + 1 = k BY <1>1
  <2>2. CASE k < i
    <3>1. k - 1 < i /\ k \in 1..i - 1 BY <1>1, <2>2
    <3>2. new[k] = run[i] /\ new[k - 1] = run[i] /\ less[k] = list[k]
      BY <1>2, <1>6, <2>1, <2>2, <3>1
    <3>. QED BY <3>1, <3>2 DEF StepsTo
  <2>3. CASE ~(k < i)
    <3>1. k + 1 \in 1..N + 1 /\ (k + 1) - 1 = k BY <1>1
    <3>2. new[k] = run[k + 1] /\ less[k] = list[k + 1] BY <1>2, <1>6, <2>1, <2>3
    <3>3. new[k - 1] = run[k]
      <4>1. CASE k = i
        <5>1. k - 1 < i BY <1>1, <4>1
        <5>. QED BY <1>6, <2>1, <4>1, <5>1
      <4>2. CASE k # i
        <5>1. ~(k - 1 < i) BY <1>1, <2>3, <4>2
        <5>. QED BY <1>6, <2>1, <5>1
      <4>. QED BY <4>1, <4>2
    <3>. QED BY <1>3, <3>1, <3>2, <3>3
  <2>. QED BY <2>2, <2>3
<1>8. new[0] = run[i]
  <2>1. 0 \in 0..N /\ 0 < i BY <1>1
  <2>. QED BY <1>6, <2>1
<1>9. new[N] = run[N + 1]
  <2>1. N \in 0..N BY <1>1
  <2>2. CASE N < i
    <3>1. i = N + 1 BY <1>1, <2>2
    <3>. QED BY <1>6, <2>1, <2>2, <3>1
  <2>3. CASE ~(N < i) BY <1>6, <2>1, <2>3
  <2>. QED BY <2>2, <2>3
<1>10. N + 1 = Len(list) BY DEF N
<1>11. StepsTo(run[0], list[i], run[i]) BY <1>1, <1>3, <1>4
<1>. QED BY <1>2, <1>7, <1>8, <1>9, <1>10, <1>11 DEF Steps, N, less

\* An account that says what it said.
LEMMA LeadsSame ==
  ASSUME NEW b \in Blobs, Leads(b), \A m : Says(account, m) => Says(account', m),
         blob'[b] = blob[b], flight'[b] = flight[b]
  PROVE  Leads(b)'
BY DEF Leads

\* A consolidation of the blob's own that is lost or refused.
LEMMA LeadsWithout ==
  ASSUME NEW b \in Blobs, Leads(b), NEW F, flight[b] \in Seq(F), UNCHANGED account,
         blob'[b] = blob[b], NEW i \in 1..Len(flight[b]), flight[b][i].kind = "consolidate",
         flight'[b] = RemoveAt(flight[b], i)
  PROVE  Leads(b)'
<1>1. PICK run : /\ Says(account, run[0]) /\ Steps(run, flight[b])
                 /\ Holds(blob[b], run[Len(flight[b])])
  BY DEF Leads
<1>2. PICK new : /\ new[0] = run[0] /\ new[Len(flight[b]) - 1] = run[Len(flight[b])]
                 /\ Steps(new, RemoveAt(flight[b], i))
  BY <1>1, RunSkips
<1>3. Len(flight'[b]) = Len(flight[b]) - 1 BY RemovedAt
<1>. QED BY <1>1, <1>2, <1>3 DEF Leads

\* A request of the blob's own that overtakes at most consolidations.
LEMMA LeadsAhead ==
  ASSUME LogInv, NEW b \in Blobs, Leads(b), NEW i \in 1..Len(flight[b]),
         \A j \in 1..i - 1 : flight[b][j].kind = "consolidate",
         account' = Handled(account, flight[b][i]), blob'[b] = blob[b],
         flight'[b] = RemoveAt(flight[b], i)
  PROVE  Leads(b)'
<1>1. PICK run : /\ Says(account, run[0]) /\ Steps(run, flight[b])
                 /\ Holds(blob[b], run[Len(flight[b])])
  BY DEF Leads
<1>2. PICK F : flight[b] \in Seq(F) BY DEF LogInv, FlightInv
<1>3. StepsTo(run[0], flight[b][i], run[i]) BY <1>1, <1>2, RunAhead
<1>4. PICK new : /\ new[0] = run[i] /\ new[Len(flight[b]) - 1] = run[Len(flight[b])]
                 /\ Steps(new, RemoveAt(flight[b], i))
  BY <1>1, <1>2, RunAhead
<1>5. Len(flight'[b]) = Len(flight[b]) - 1 BY <1>2, RemovedAt
<1>6. AccountInv /\ Shaped(account) BY DEF LogInv, AccountInv
<1>7. Right(account, flight[b][i]) BY <1>6, RightOf DEF LogInv, FlightInv
<1>8. Says(account', run[i]) BY <1>1, <1>3, <1>6, <1>7, SaysNext
<1>. QED BY <1>1, <1>4, <1>5, <1>8 DEF Leads

-----------------------------------------------------------------------------
(* The steps keep them together.                                             *)

\* A step of b.
LEMMA StepOf ==
  ASSUME StepInv, LogInv', Typed', NEW b \in Blobs, Stage(b)', inStep'[b] => Leads(b)',
         \A c \in Blobs \ {b} : Left(c) /\ (inStep'[c] => Leads(c)')
  PROVE  StepInv'
<1>1. \A c \in Blobs \ {b} : Stage(c)' BY LeftAlone DEF StepInv
<1>. QED BY <1>1 DEF StepInv

\* The server is not involved.
LEMMA StepHere ==
  ASSUME StepInv, LogInv', Typed', UNCHANGED account, NEW b \in Blobs, Stage(b)',
         inStep'[b] => Leads(b)', \A c \in Blobs \ {b} : Left(c)
  PROVE  StepInv'
<1>1. ASSUME NEW c \in Blobs \ {b}, inStep'[c] PROVE Leads(c)'
  <2>1. Leads(c) BY <1>1 DEF StepInv, Left
  <2>. QED BY <2>1, LeadsStill DEF Left
<1>. QED BY <1>1, StepOf

LEMMA StepStays ==
  ASSUME StepInv, UNCHANGED vars
  PROVE  StepInv'
<1>1. LogInv' BY LogStays DEF StepInv, vars
<1>2. Typed' BY DEF StepInv, Typed, vars
<1>3. ASSUME NEW b \in Blobs PROVE Stage(b)' /\ (inStep'[b] => Leads(b)')
  <2>1. Left(b) /\ Stage(b) BY DEF Left, vars, StepInv
  <2>2. inStep'[b] => Leads(b)' BY LeadsStill DEF vars, StepInv
  <2>. QED BY <2>1, <2>2, LeftAlone
<1>. QED BY <1>1, <1>2, <1>3 DEF StepInv

LEMMA SendsTo ==
  ASSUME LogInv, NEW b \in Blobs, NEW p, Sends(b, p)
  PROVE  /\ flight'[b] = Append(flight[b], p) /\ \A c \in Blobs \ {b} : flight'[c] = flight[c]
         /\ Len(flight'[b]) = Len(flight[b]) + 1 /\ flight'[b][Len(flight[b]) + 1] = p
         /\ \A i \in 1..Len(flight[b]) : flight'[b][i] = flight[b][i]
         /\ Len(flight[b]) \in Nat
<1>1. PICK F : flight \in [Blobs -> Seq(F)] BY DEF LogInv, FlightInv
<1>2. flight' = [flight EXCEPT ![b] = Append(flight[b], p)] BY DEF Sends
<1>3. flight'[b] = Append(flight[b], p) /\ \A c \in Blobs \ {b} : flight'[c] = flight[c]
  BY <1>1, <1>2
<1>4. flight[b] \in Seq(F) BY <1>1
<1>. QED BY <1>3, <1>4, Appended

LEMMA SendsFirst ==
  ASSUME LogInv, NEW b \in Blobs, NEW p, Sends(b, p), flight[b] = <<>>
  PROVE  /\ Len(flight'[b]) = 1 /\ flight'[b][1] = p
         /\ \A c \in Blobs \ {b} : flight'[c] = flight[c]
<1>1. flight'[b] = Append(flight[b], p) /\ \A c \in Blobs \ {b} : flight'[c] = flight[c]
  BY SendsTo
<1>2. flight'[b] = <<p>> BY <1>1
<1>. QED BY <1>1, <1>2

LEMMA StepRegisters ==
  ASSUME StepInv, NEW b \in Blobs, NEW k \in Keys, Register(b, k) PROVE StepInv'
<1>1. LogInv' BY LogRegisters DEF StepInv
<1>2. /\ ~Loaded(b) /\ fetched[b] = NoAccount /\ flight[b] = <<>> /\ replies[b] = <<>>
      /\ Sends(b, Post("create", NewBlob(k), k))
      /\ UNCHANGED <<account, blob, replies, fetched, inStep>>
  BY DEF Register, Unused
<1>3. Typed' BY <1>2 DEF StepInv, Typed
<1>4. Len(flight'[b]) = 1 /\ \A c \in Blobs \ {b} : flight'[c] = flight[c]
  <2>1. PICK p : p = Post("create", NewBlob(k), k) OBVIOUS
  <2>2. Sends(b, p) BY <1>2, <2>1
  <2>. QED BY <1>2, <2>2, SendsFirst DEF StepInv
<1>5. ~inStep[b] BY <1>2 DEF StepInv, Stage
<1>6. Stage(b)' BY <1>2, <1>4, <1>5 DEF Stage, Loaded
<1>7. \A c \in Blobs \ {b} : Left(c) BY <1>2, <1>4 DEF Left
<1>. QED BY <1>1, <1>2, <1>3, <1>5, <1>6, <1>7, StepHere

LEMMA StepFetches ==
  ASSUME StepInv, NEW b \in Blobs, Fetch(b) PROVE StepInv'
<1>1. LogInv' BY LogFetches DEF StepInv
<1>2. /\ ~Loaded(b) /\ flight[b] = <<>> /\ replies[b] = <<>> /\ account.id # None
      /\ fetched' = [fetched EXCEPT ![b] = account]
      /\ UNCHANGED <<account, blob, flight, replies, inStep>>
  BY DEF Fetch, Unused
<1>3. Typed' BY <1>2 DEF StepInv, Typed
<1>4. fetched'[b] = account /\ \A c \in Blobs \ {b} : fetched'[c] = fetched[c]
  BY <1>2 DEF StepInv, LogInv, FetchedInv
<1>5. ~inStep[b] BY <1>2 DEF StepInv, Stage
<1>6. Stage(b)' BY <1>2, <1>4, <1>5 DEF Stage, Loaded
<1>7. \A c \in Blobs \ {b} : Left(c) BY <1>2, <1>4 DEF Left
<1>. QED BY <1>1, <1>2, <1>3, <1>5, <1>6, <1>7, StepHere

LEMMA StepLoads ==
  ASSUME StepInv, NEW b \in Blobs, Load(b) PROVE StepInv'
<1>1. LogInv' BY LogLoads DEF StepInv
<1>. DEFINE a == fetched[b]
            r == Decrypted(a)
<1>2. PICK new :
        /\ new = [id |-> a.id, secret |-> a.secret, typo |-> None, data |-> r.doc,
                  revision |-> a.revision + Applied(a)]
        /\ a # NoAccount /\ fetched' = [fetched EXCEPT ![b] = NoAccount]
        /\ blob' = [blob EXCEPT ![b] = new]
        /\ IF a.patches # <<>> /\ r.ok
           THEN Sends(b, Consolidation(new)) ELSE UNCHANGED flight
        /\ inStep' = [inStep EXCEPT ![b] = r.ok /\ a = account]
        /\ UNCHANGED <<account, replies>>
  BY DEF Load
<1>3. a.id # None /\ flight[b] = <<>> /\ replies[b] = <<>>
  BY <1>2 DEF StepInv, Stage
<1>4. Typed'
  <2>1. PICK B : blob \in [Blobs -> [id : B, secret : B, typo : B, data : B, revision : B]]
    BY DEF StepInv, Typed
  <2>. DEFINE C == B \cup {a.id, a.secret, None, r.doc, a.revision + Applied(a)}
  <2>2. new \in [id : C, secret : C, typo : C, data : C, revision : C] BY <1>2
  <2>3. \A c \in Blobs : blob[c] \in [id : C, secret : C, typo : C, data : C, revision : C]
    BY <2>1
  <2>. HIDE DEF C
  <2>4. blob' \in [Blobs -> [id : C, secret : C, typo : C, data : C, revision : C]]
    BY <1>2, <2>1, <2>2, <2>3
  <2>5. inStep' \in [Blobs -> BOOLEAN] BY <1>2 DEF StepInv, Typed
  <2>6. \E R : replies' \in [Blobs -> Seq(R)] BY <1>2 DEF StepInv, Typed
  <2>. QED BY <2>4, <2>5, <2>6 DEF Typed
<1>5. /\ fetched'[b] = NoAccount /\ \A c \in Blobs \ {b} : fetched'[c] = fetched[c]
      /\ blob'[b] = new /\ \A c \in Blobs \ {b} : blob'[c] = blob[c]
      /\ (inStep'[b] => r.ok /\ a = account) /\ \A c \in Blobs \ {b} : inStep'[c] = inStep[c]
  BY <1>2 DEF StepInv, LogInv, FetchedInv, Typed
<1>6. /\ \A c \in Blobs \ {b} : flight'[c] = flight[c]
      /\ \/ flight'[b] = <<>>
         \/ /\ Len(flight'[b]) = 1 /\ flight'[b][1].kind = "consolidate"
            /\ flight'[b][1].then = None
  <2>1. CASE UNCHANGED flight BY <1>3, <2>1
  <2>2. CASE Sends(b, Consolidation(new))
    <3>1. PICK p : p = Consolidation(new) OBVIOUS
    <3>2. Sends(b, p) BY <2>2, <3>1
    <3>3. Len(flight'[b]) = 1 /\ flight'[b][1] = p
          /\ \A c \in Blobs \ {b} : flight'[c] = flight[c]
      BY <1>3, <3>2, SendsFirst DEF StepInv
    <3>. QED BY <3>1, <3>3 DEF Consolidation, Post
  <2>. QED BY <1>2, <2>1, <2>2
<1>7. Stage(b)'
  <2>1. Loaded(b)' BY <1>2, <1>3, <1>5 DEF Loaded
  <2>2. replies'[b] = <<>> BY <1>2, <1>3
  <2>3. \A i \in 1..Len(flight'[b]) : flight'[b][i].then \notin Keys
    BY <1>6, VaultAssumption
  <2>. QED BY <1>5, <2>1, <2>2, <2>3 DEF Stage
<1>8. ASSUME inStep'[b] PROVE Leads(b)'
  <2>1. r.ok /\ a = account BY <1>5, <1>8
  <2>2. PICK m : m = [id |-> a.id, secret |-> a.secret, doc |-> r.doc] OBVIOUS
  <2>3. PICK run : run = [j \in 0..1 |-> m] OBVIOUS
  <2>4. run[0] = m /\ run[1] = m BY <2>3
  <2>5. Says(account', run[0]) BY <1>2, <2>1, <2>2, <2>4 DEF Says
  <2>6. Holds(blob'[b], m) BY <1>2, <1>5, <2>2 DEF Holds
  <2>7. Steps(run, flight'[b]) BY <1>6, <2>4 DEF Steps, StepsTo
  <2>8. run[Len(flight'[b])] = m BY <1>6, <2>4
  <2>. QED BY <2>5, <2>6, <2>7, <2>8 DEF Leads
<1>9. \A c \in Blobs \ {b} : Left(c) BY <1>2, <1>5, <1>6 DEF Left
<1>. QED BY <1>1, <1>2, <1>4, <1>7, <1>8, <1>9, StepHere

\* A request is added to those of a blob that waits for nothing.
LEMMA StageSends ==
  ASSUME StepInv, NEW b \in Blobs, NEW p, Sends(b, p), p.then \notin Keys,
         Stage(b), UNCHANGED fetched, fetched[b] = NoAccount,
         \A i \in 1..Len(flight[b]) : flight[b][i].then \notin Keys,
         \A i \in 1..Len(replies'[b]) : replies'[b][i].then \notin Keys,
         inStep'[b] => Loaded(b)'
  PROVE  Stage(b)'
<1>1. ASSUME NEW i \in 1..Len(flight'[b]) PROVE flight'[b][i].then \notin Keys
  <2>1. /\ Len(flight'[b]) = Len(flight[b]) + 1 /\ flight'[b][Len(flight[b]) + 1] = p
        /\ \A j \in 1..Len(flight[b]) : flight'[b][j] = flight[b][j]
        /\ Len(flight[b]) \in Nat
    BY SendsTo DEF StepInv
  <2>2. CASE i = Len(flight[b]) + 1 BY <2>1, <2>2
  <2>3. CASE i # Len(flight[b]) + 1
    <3>1. i \in 1..Len(flight[b]) BY <2>1, <2>3
    <3>. QED BY <2>1, <3>1
  <2>. QED BY <2>2, <2>3
<1>. QED BY <1>1 DEF Stage

\* An update changes the blob as its patch will the account.
LEMMA StepUpdates ==
  ASSUME StepInv, NEW b \in Blobs, NEW u, NEW then, then \notin Keys, Update(b, u, then),
         UNCHANGED <<account, origin, log, fetched>>, fetched[b] = NoAccount,
         \E R : replies' \in [Blobs -> Seq(R)],
         \A c \in Blobs \ {b} : replies'[c] = replies[c],
         \A i \in 1..Len(flight[b]) : flight[b][i].then \notin Keys,
         \A i \in 1..Len(replies'[b]) : replies'[b][i].then \notin Keys
  PROVE  StepInv'
<1>. DEFINE r == Apply(blob[b].data, u)
<1>1. /\ blob' = [blob EXCEPT ![b].data = r.doc]
      /\ IF r.ok THEN Sends(b, Patch(blob[b], u, then)) ELSE UNCHANGED flight
      /\ inStep' = [inStep EXCEPT ![b] = @ /\ (r.ok \/ r.doc = blob[b].data)]
  BY DEF Update
<1>2. LogInv' BY LogUpdates DEF StepInv
<1>3. PICK B : blob \in [Blobs -> [id : B, secret : B, typo : B, data : B, revision : B]]
  BY DEF StepInv, Typed
<1>4. Typed'
  <2>. DEFINE C == B \cup {r.doc}
  <2>1. blob' \in [Blobs -> [id : C, secret : C, typo : C, data : C, revision : C]]
    BY <1>1, <1>3
  <2>2. inStep' \in [Blobs -> BOOLEAN] BY <1>1 DEF StepInv, Typed
  <2>. HIDE DEF C
  <2>. QED BY <2>1, <2>2 DEF Typed
<1>5. /\ blob'[b].id = blob[b].id /\ blob'[b].secret = blob[b].secret
      /\ blob'[b].typo = blob[b].typo /\ blob'[b].data = r.doc
      /\ \A c \in Blobs \ {b} : blob'[c] = blob[c]
  BY <1>1, <1>3
<1>6. /\ inStep'[b] => inStep[b] /\ (r.ok \/ r.doc = blob[b].data)
      /\ \A c \in Blobs \ {b} : inStep'[c] = inStep[c]
  BY <1>1 DEF StepInv, Typed
<1>7. PICK p : p = Patch(blob[b], u, then) OBVIOUS
<1>8. p.kind = "patch" /\ p.id = blob[b].id /\ p.update = u /\ p.then = then
  BY <1>7 DEF Patch, Post
<1>. HIDE DEF r
<1>9. \A c \in Blobs \ {b} : flight'[c] = flight[c]
  <2>1. CASE Sends(b, p) BY <2>1, SendsTo DEF StepInv
  <2>. QED BY <1>1, <1>7, <2>1
<1>10. Stage(b)'
  <2>1. Stage(b) /\ (inStep'[b] => Loaded(b)') BY <1>5, <1>6 DEF StepInv, Stage, Loaded
  <2>2. CASE Sends(b, p) BY <1>8, <2>1, <2>2, StageSends
  <2>3. CASE UNCHANGED flight BY <2>1, <2>3 DEF Stage
  <2>. QED BY <1>1, <1>7, <2>2, <2>3
<1>11. ASSUME inStep'[b] PROVE Leads(b)'
  <2>1. Leads(b) /\ (r.ok \/ r.doc = blob[b].data) BY <1>6, <1>11 DEF StepInv
  <2>2. PICK run : /\ Says(account, run[0]) /\ Steps(run, flight[b])
                   /\ Holds(blob[b], run[Len(flight[b])])
    BY <2>1 DEF Leads
  <2>3. PICK m : m = run[Len(flight[b])] OBVIOUS
  <2>4. CASE r.ok
    <3>1. PICK n : n = [id |-> m.id, secret |-> m.secret, doc |-> r.doc] OBVIOUS
    <3>2. Holds(blob'[b], n) BY <1>5, <2>2, <2>3, <3>1 DEF Holds
    <3>3. StepsTo(m, p, n) BY <1>8, <2>2, <2>3, <2>4, <3>1 DEF StepsTo, Holds, r
    <3>4. flight'[b] = Append(flight[b], p) BY <1>1, <1>7, <2>4, SendsTo DEF StepInv
    <3>5. PICK F : flight[b] \in Seq(F) BY DEF StepInv, LogInv, FlightInv
    <3>. QED BY <2>2, <2>3, <3>2, <3>3, <3>4, <3>5, LeadsFurther
  <2>5. CASE ~r.ok
    <3>1. flight'[b] = flight[b] BY <1>1, <2>5
    <3>2. Holds(blob'[b], m) BY <1>5, <2>1, <2>2, <2>3, <2>5 DEF Holds
    <3>. QED BY <2>2, <2>3, <3>1, <3>2 DEF Leads
  <2>. QED BY <2>4, <2>5
<1>12. \A c \in Blobs \ {b} : Left(c) BY <1>5, <1>6, <1>9 DEF Left
<1>. QED BY <1>2, <1>4, <1>10, <1>11, <1>12, StepHere

\* A blob in use waits for no account.
LEMMA InUse ==
  ASSUME StepInv, NEW b \in Blobs, Loaded(b)
  PROVE  /\ fetched[b] = NoAccount
         /\ \A i \in 1..Len(flight[b]) : flight[b][i].then \notin Keys
         /\ \A i \in 1..Len(replies[b]) : replies[b][i].then \notin Keys
BY DEF StepInv, Stage

LEMMA StepCalls ==
  ASSUME StepInv, NEW b \in Blobs, Loaded(b), NEW u, NEW then, then \notin Keys,
         Update(b, u, then), UNCHANGED <<account, origin, log, fetched, replies>>
  PROVE  StepInv'
<1>1. \E R : replies' \in [Blobs -> Seq(R)] BY DEF StepInv, Typed
<1>2. /\ fetched[b] = NoAccount
      /\ \A i \in 1..Len(flight[b]) : flight[b][i].then \notin Keys
      /\ \A i \in 1..Len(replies'[b]) : replies'[b][i].then \notin Keys
  BY InUse
<1>. QED BY <1>1, <1>2, StepUpdates

\* A blob that holds what its revision does is consolidated: nothing changes.
LEMMA StepConsolidates ==
  ASSUME StepInv, NEW b \in Blobs, Loaded(b), Sound(Consolidation(blob[b])),
         Sends(b, Consolidation(blob[b])),
         UNCHANGED <<account, origin, log, blob, replies, fetched, inStep>>
  PROVE  StepInv'
<1>1. PICK p : p = Consolidation(blob[b]) OBVIOUS
<1>2. p.kind = "consolidate" /\ p.then = None BY <1>1 DEF Consolidation, Post
<1>3. LogInv' BY LogSends DEF StepInv
<1>4. Typed' BY DEF StepInv, Typed
<1>5. flight'[b] = Append(flight[b], p) /\ \A c \in Blobs \ {b} : flight'[c] = flight[c]
  BY <1>1, SendsTo DEF StepInv
<1>6. Stage(b)'
  <2>1. Loaded(b)' /\ Stage(b) BY DEF Loaded, StepInv
  <2>2. \A i \in 1..Len(replies'[b]) : replies'[b][i].then \notin Keys BY InUse
  <2>3. p.then \notin Keys BY <1>2, VaultAssumption
  <2>. QED BY <1>1, <2>1, <2>2, <2>3, InUse, StageSends
<1>7. ASSUME inStep'[b] PROVE Leads(b)'
  <2>1. Leads(b) BY <1>7 DEF StepInv
  <2>2. PICK run : /\ Says(account, run[0]) /\ Steps(run, flight[b])
                   /\ Holds(blob[b], run[Len(flight[b])])
    BY <2>1 DEF Leads
  <2>3. PICK m : m = run[Len(flight[b])] OBVIOUS
  <2>4. StepsTo(m, p, m) BY <1>2 DEF StepsTo
  <2>5. Holds(blob'[b], m) BY <2>2, <2>3
  <2>6. PICK F : flight[b] \in Seq(F) BY DEF StepInv, LogInv, FlightInv
  <2>. QED BY <1>5, <2>2, <2>3, <2>4, <2>5, <2>6, LeadsFurther
<1>8. \A c \in Blobs \ {b} : Left(c) BY <1>5 DEF Left
<1>. QED BY <1>3, <1>4, <1>6, <1>7, <1>8, StepHere

\* The keys change in the blob as they will in the account.
LEMMA StepKeys ==
  ASSUME StepInv, NEW b \in Blobs, Loaded(b), NEW k, k # None,
         \/ blob' = [blob EXCEPT ![b].id = k, ![b].secret = k]
         \/ blob' = [blob EXCEPT ![b].id = k, ![b].typo = k],
         Sends(b, NewKeys(blob[b], k)),
         UNCHANGED <<account, origin, log, replies, fetched, inStep>>
  PROVE  StepInv'
<1>1. LogInv' BY LogKeys DEF StepInv
<1>2. PICK B : blob \in [Blobs -> [id : B, secret : B, typo : B, data : B, revision : B]]
  BY DEF StepInv, Typed
<1>3. Typed'
  <2>. DEFINE C == B \cup {k}
  <2>1. blob' \in [Blobs -> [id : C, secret : C, typo : C, data : C, revision : C]]
    BY <1>2
  <2>. HIDE DEF C
  <2>. QED BY <2>1 DEF StepInv, Typed
<1>4. /\ blob'[b].id = k /\ blob'[b].data = blob[b].data
      /\ blob'[b].secret = k \/ blob'[b].typo # None
      /\ \A c \in Blobs \ {b} : blob'[c] = blob[c]
  BY <1>2
<1>5. PICK p : p = NewKeys(blob[b], k) OBVIOUS
<1>6. /\ p.kind = "keys" /\ p.id = blob[b].id /\ p.newId = k /\ p.secret = k
      /\ p.data = blob[b].data /\ p.then = None
  BY <1>5 DEF NewKeys, Post
<1>7. flight'[b] = Append(flight[b], p) /\ \A c \in Blobs \ {b} : flight'[c] = flight[c]
  BY <1>5, SendsTo DEF StepInv
<1>8. Stage(b)'
  <2>1. Loaded(b)' /\ Stage(b) BY <1>4 DEF Loaded, StepInv
  <2>2. \A i \in 1..Len(replies'[b]) : replies'[b][i].then \notin Keys BY InUse
  <2>3. p.then \notin Keys BY <1>6, VaultAssumption
  <2>. QED BY <1>5, <2>1, <2>2, <2>3, InUse, StageSends
<1>9. ASSUME inStep'[b] PROVE Leads(b)'
  <2>1. Leads(b) BY <1>9 DEF StepInv
  <2>2. PICK run : /\ Says(account, run[0]) /\ Steps(run, flight[b])
                   /\ Holds(blob[b], run[Len(flight[b])])
    BY <2>1 DEF Leads
  <2>3. PICK n : n = [id |-> k, secret |-> k, doc |-> blob[b].data] OBVIOUS
  <2>4. StepsTo(run[Len(flight[b])], p, n) BY <1>6, <2>2, <2>3 DEF StepsTo, Holds
  <2>5. Holds(blob'[b], n) BY <1>4, <2>3 DEF Holds
  <2>6. PICK F : flight[b] \in Seq(F) BY DEF StepInv, LogInv, FlightInv
  <2>. QED BY <1>7, <2>2, <2>4, <2>5, <2>6, LeadsFurther
<1>10. \A c \in Blobs \ {b} : Left(c) BY <1>4, <1>7 DEF Left
<1>. QED BY <1>1, <1>3, <1>8, <1>9, <1>10, StepHere

LEMMA AnswersTo ==
  ASSUME Typed, NEW b \in Blobs, NEW p, NEW ok, Answers(b, p, ok)
  PROVE  /\ \E R : replies' \in [Blobs -> Seq(R)]
         /\ \A c \in Blobs \ {b} : replies'[c] = replies[c]
         /\ \/ p.then = None /\ replies'[b] = replies[b]
            \/ replies'[b] = Append(replies[b], [then |-> p.then, ok |-> ok])
<1>1. PICK R : replies \in [Blobs -> Seq(R)] BY DEF Typed
<1>2. CASE p.then = None
  <2>1. replies' = replies BY <1>2 DEF Answers
  <2>. QED BY <1>1, <1>2, <2>1
<1>3. CASE p.then # None
  <2>1. PICK r : r = [then |-> p.then, ok |-> ok] OBVIOUS
  <2>2. replies' = [replies EXCEPT ![b] = Append(replies[b], r)] BY <1>3, <2>1 DEF Answers
  <2>3. \A c \in Blobs : replies[c] \in Seq(R \cup {r}) BY <1>1
  <2>4. Append(replies[b], r) \in Seq(R \cup {r}) BY <2>3
  <2>5. replies' \in [Blobs -> Seq(R \cup {r})] BY <1>1, <2>2, <2>3, <2>4
  <2>6. replies'[b] = Append(replies[b], r) /\ \A c \in Blobs \ {b} : replies'[c] = replies[c]
    BY <1>1, <2>2
  <2>. QED BY <2>1, <2>5, <2>6
<1>. QED BY <1>2, <1>3

\* A request is answered, or known to have failed.
LEMMA StageAnswers ==
  ASSUME StepInv, NEW b \in Blobs, NEW i \in 1..Len(flight[b]), NEW ok,
         flight'[b] = RemoveAt(flight[b], i), Answers(b, flight[b][i], ok),
         blob'[b] = blob[b], UNCHANGED fetched, inStep'[b] => inStep[b]
  PROVE  Stage(b)'
<1>. DEFINE list == flight[b]
<1>1. Stage(b) /\ Typed BY DEF StepInv
<1>2. PICK F : list \in Seq(F) BY DEF StepInv, LogInv, FlightInv
<1>3. PICK R : replies[b] \in Seq(R) BY <1>1 DEF Typed
<1>4. Len(flight'[b]) = Len(list) - 1 /\ Len(list) \in Nat
      /\ \A k \in 1..Len(list) - 1 : flight'[b][k] = list[IF k < i THEN k ELSE k + 1]
  <2>1. Len(RemoveAt(list, i)) = Len(list) - 1
        /\ \A k \in 1..Len(list) - 1 : RemoveAt(list, i)[k] = list[IF k < i THEN k ELSE k + 1]
    <3>. HIDE DEF list
    <3>1. i \in 1..Len(list) BY DEF list
    <3>. QED BY <1>2, <3>1, RemovedAt
  <2>. QED BY <1>2, <2>1
<1>5. list # <<>>
  <2>1. Len(<<>>) = 0 OBVIOUS
  <2>. QED BY <1>2, <2>1
<1>6. fetched[b] = NoAccount BY <1>1, <1>5 DEF Stage
<1>7. (Loaded(b)' <=> Loaded(b)) /\ (inStep'[b] => Loaded(b)') BY <1>1 DEF Loaded, Stage
<1>8. \A k \in 1..Len(replies[b]) : replies[b][k].then \notin Keys
  BY <1>1, <1>5 DEF Stage
<1>9. PICK r : r = [then |-> list[i].then, ok |-> ok] OBVIOUS
<1>10. \/ list[i].then = None /\ replies'[b] = replies[b]
       \/ replies'[b] = Append(replies[b], r)
  BY <1>1, <1>9, AnswersTo
<1>11. Len(replies'[b]) = Len(replies[b]) + 1 =>
         /\ Len(replies[b]) \in Nat
         /\ \A k \in 1..Len(replies'[b]) : k # Len(replies'[b]) =>
              k \in 1..Len(replies[b]) /\ replies'[b][k] = replies[b][k]
  <2>1. CASE replies'[b] = replies[b] BY <1>3, <2>1
  <2>2. CASE replies'[b] = Append(replies[b], r) BY <1>3, <2>2
  <2>. QED BY <1>10, <2>1, <2>2
<1>12. CASE list[i].then \in Keys
  <2>1. ~Loaded(b) /\ Len(list) = 1 /\ replies[b] = <<>> BY <1>1, <1>12 DEF Stage
  <2>2. flight'[b] = <<>>
    <3>1. RemoveAt(list, i) \in Seq(F) /\ Len(RemoveAt(list, i)) = 0
      BY <1>2, <1>4, <2>1, RemovedAt
    <3>. QED BY <3>1
  <2>3. replies'[b] = <<r>>
    <3>1. list[i].then # None BY <1>12, VaultAssumption
    <3>. QED BY <1>10, <2>1, <3>1
  <2>4. Len(<<>>) = 0 /\ Len(<<r>>) = 1 OBVIOUS
  <2>. QED BY <1>6, <1>7, <2>1, <2>2, <2>3, <2>4 DEF Stage
<1>13. CASE list[i].then \notin Keys
  <2>1. ASSUME NEW k \in 1..Len(flight'[b]) PROVE flight'[b][k].then \notin Keys
    <3>1. PICK j \in 1..Len(list) : flight'[b][k] = list[j] /\ j # i
      <4>. DEFINE j == IF k < i THEN k ELSE k + 1
      <4>1. j \in 1..Len(list) /\ j # i /\ k \in 1..Len(list) - 1 BY <1>4
      <4>2. flight'[b][k] = list[j] BY <1>4, <4>1
      <4>. QED BY <4>1, <4>2
    <3>2. Len(list) # 1 BY <1>4, <3>1
    <3>. QED BY <1>1, <3>1, <3>2 DEF Stage
  <2>2. ASSUME NEW k \in 1..Len(replies'[b]) PROVE replies'[b][k].then \notin Keys
    <3>1. CASE replies'[b] = replies[b] BY <1>8, <3>1
    <3>2. CASE replies'[b] = Append(replies[b], r)
      <4>1. Len(replies'[b]) = Len(replies[b]) + 1 /\ Len(replies[b]) \in Nat
            /\ replies'[b][Len(replies[b]) + 1] = r
        BY <1>3, <3>2
      <4>2. CASE k = Len(replies'[b]) BY <1>9, <1>13, <4>1, <4>2
      <4>3. CASE k # Len(replies'[b]) BY <1>8, <1>11, <4>1, <4>3
      <4>. QED BY <4>2, <4>3
    <3>. QED BY <1>10, <3>1, <3>2
  <2>. QED BY <1>6, <1>7, <2>1, <2>2 DEF Stage
<1>. QED BY <1>12, <1>13

LEMMA RemovesFrom ==
  ASSUME LogInv, NEW b \in Blobs, NEW i, flight' = [flight EXCEPT ![b] = RemoveAt(@, i)]
  PROVE  flight'[b] = RemoveAt(flight[b], i) /\ \A c \in Blobs \ {b} : flight'[c] = flight[c]
<1>1. PICK F : flight \in [Blobs -> Seq(F)] BY DEF LogInv, FlightInv
<1>. QED BY <1>1

\* A consolidation, whoever's, is of data that the account holds already.
LEMMA SaysStill ==
  ASSUME LogInv, NEW p, Sound(p), p.kind = "consolidate", account' = Handled(account, p)
  PROVE  \A m : Says(account, m) => Says(account', m)
<1>1. AccountInv /\ Shaped(account) BY DEF LogInv, AccountInv
<1>2. Right(account, p) BY <1>1, RightOf
<1>. QED BY <1>1, <1>2, SaysConsolidation

LEMMA StepArrives ==
  ASSUME StepInv, NEW b \in Blobs, NEW i \in 1..Len(flight[b]), NEW lost \in BOOLEAN,
         Arrives(b, i, lost)
  PROVE  StepInv'
<1>1. PICK p : p = flight[b][i] OBVIOUS
<1>2. LogInv /\ LogInv' BY LogArrives DEF StepInv
<1>3. /\ account' = Handled(account, p)
      /\ flight' = [flight EXCEPT ![b] = RemoveAt(@, i)]
      /\ Answers(b, p, ~lost)
      /\ inStep' = [c \in Blobs |->
                      /\ inStep[c]
                      /\ IF c = b THEN ~Overtaken(b, i) ELSE p.kind = "consolidate"]
      /\ UNCHANGED <<blob, fetched>>
  BY <1>1 DEF Arrives
<1>4. flight'[b] = RemoveAt(flight[b], i) /\ \A c \in Blobs \ {b} : flight'[c] = flight[c]
  BY <1>2, <1>3, RemovesFrom
<1>5. /\ inStep'[b] => inStep[b] /\ ~Overtaken(b, i)
      /\ \A c \in Blobs \ {b} : inStep'[c] => inStep[c] /\ p.kind = "consolidate"
  BY <1>3
<1>6. Typed'
  <2>1. \E R : replies' \in [Blobs -> Seq(R)] BY <1>3, AnswersTo DEF StepInv
  <2>2. inStep' \in [Blobs -> BOOLEAN] BY <1>3
  <2>. QED BY <1>3, <2>1, <2>2 DEF StepInv, Typed
<1>7. Stage(b)' BY <1>1, <1>3, <1>4, <1>5, StageAnswers
<1>8. ASSUME inStep'[b] PROVE Leads(b)'
  <2>1. Leads(b) BY <1>5, <1>8 DEF StepInv
  <2>2. \A j \in 1..i - 1 : flight[b][j].kind = "consolidate"
    BY <1>5, <1>8 DEF Overtaken
  <2>. QED BY <1>1, <1>2, <1>3, <1>4, <2>1, <2>2, LeadsAhead
<1>9. ASSUME NEW c \in Blobs \ {b} PROVE Left(c) /\ (inStep'[c] => Leads(c)')
  <2>1. replies'[c] = replies[c] BY <1>3, AnswersTo DEF StepInv
  <2>2. Left(c) BY <1>3, <1>4, <1>5, <2>1 DEF Left
  <2>3. ASSUME inStep'[c] PROVE Leads(c)'
    <3>1. Leads(c) /\ p.kind = "consolidate" BY <1>5, <2>3 DEF StepInv
    <3>2. Sound(p) BY <1>1, <1>2 DEF LogInv, FlightInv
    <3>3. \A m : Says(account, m) => Says(account', m)
      BY <1>2, <1>3, <3>1, <3>2, SaysStill
    <3>. QED BY <2>2, <3>1, <3>3, LeadsSame DEF Left
  <2>. QED BY <2>2, <2>3
<1>. QED BY <1>2, <1>6, <1>7, <1>8, <1>9, StepOf

LEMMA StepFails ==
  ASSUME StepInv, NEW b \in Blobs, NEW i \in 1..Len(flight[b]), Fails(b, i)
  PROVE  StepInv'
<1>1. PICK p : p = flight[b][i] OBVIOUS
<1>2. LogInv /\ LogInv' BY LogFails DEF StepInv
<1>3. /\ flight' = [flight EXCEPT ![b] = RemoveAt(@, i)]
      /\ Answers(b, p, FALSE)
      /\ inStep' = [inStep EXCEPT ![b] = @ /\ p.kind = "consolidate"]
      /\ UNCHANGED <<account, blob, fetched>>
  BY <1>1 DEF Fails
<1>4. flight'[b] = RemoveAt(flight[b], i) /\ \A c \in Blobs \ {b} : flight'[c] = flight[c]
  BY <1>2, <1>3, RemovesFrom
<1>5. /\ inStep'[b] => inStep[b] /\ p.kind = "consolidate"
      /\ \A c \in Blobs \ {b} : inStep'[c] = inStep[c]
      /\ inStep' \in [Blobs -> BOOLEAN]
  BY <1>3 DEF StepInv, Typed
<1>6. Typed'
  <2>1. \E R : replies' \in [Blobs -> Seq(R)] BY <1>3, AnswersTo DEF StepInv
  <2>. QED BY <1>3, <1>5, <2>1 DEF StepInv, Typed
<1>7. Stage(b)' BY <1>1, <1>3, <1>4, <1>5, StageAnswers
<1>8. ASSUME inStep'[b] PROVE Leads(b)'
  <2>1. Leads(b) /\ flight[b][i].kind = "consolidate" BY <1>1, <1>5, <1>8 DEF StepInv
  <2>2. PICK F : flight[b] \in Seq(F) BY <1>2 DEF LogInv, FlightInv
  <2>. QED BY <1>3, <1>4, <2>1, <2>2, LeadsWithout
<1>9. ASSUME NEW c \in Blobs \ {b} PROVE Left(c)
  <2>1. replies'[c] = replies[c] BY <1>3, AnswersTo DEF StepInv
  <2>. QED BY <1>3, <1>4, <1>5, <2>1 DEF Left
<1>. QED BY <1>2, <1>3, <1>6, <1>7, <1>8, <1>9, StepHere

LEMMA StepReplied ==
  ASSUME StepInv, NEW b \in Blobs, Replied(b) PROVE StepInv'
<1>1. LogInv /\ LogInv' BY LogReplied DEF StepInv
<1>2. PICK r : r = Head(replies[b]) OBVIOUS
<1>3. /\ replies[b] # <<>> /\ replies' = [replies EXCEPT ![b] = Tail(@)]
      /\ IF ~r.ok THEN UNCHANGED <<blob, flight, inStep>>
         ELSE IF r.then \in Keys
         THEN /\ blob' = [blob EXCEPT ![b] = NewBlob(r.then)]
              /\ inStep' = [inStep EXCEPT ![b] =
                   account = Handled(NoAccount, Post("create", NewBlob(r.then), None))]
              /\ UNCHANGED flight
         ELSE Update(b, FieldUpdate(r.then), None)
      /\ UNCHANGED <<account, origin, log, fetched>>
  BY <1>2 DEF Replied
<1>4. PICK R : replies \in [Blobs -> Seq(R)] BY DEF StepInv, Typed
<1>5. /\ replies' \in [Blobs -> Seq(R)] /\ \A c \in Blobs \ {b} : replies'[c] = replies[c]
      /\ replies'[b] = Tail(replies[b])
  <2>1. replies[b] \in Seq(R) /\ Tail(replies[b]) \in Seq(R) BY <1>3, <1>4
  <2>. QED BY <1>3, <1>4, <2>1
<1>6. /\ Len(replies[b]) \in Nat \ {0} /\ replies[b][1] = r
      /\ Len(replies'[b]) = Len(replies[b]) - 1
      /\ \A k \in 1..Len(replies'[b]) : replies'[b][k] = replies[b][k + 1]
  <2>1. replies[b] \in Seq(R) BY <1>4
  <2>. QED BY <1>2, <1>3, <1>5, <2>1
<1>7. \A k \in 1..Len(replies'[b]) : replies'[b][k].then \notin Keys
  <2>. SUFFICES ASSUME NEW k \in 1..Len(replies'[b]), replies'[b][k].then \in Keys
                PROVE  FALSE
    OBVIOUS
  <2>1. k + 1 \in 1..Len(replies[b]) /\ replies[b][k + 1].then \in Keys
        /\ Len(replies[b]) # 1
    BY <1>6
  <2>. QED BY <2>1 DEF StepInv, Stage
<1>8. fetched[b] = NoAccount /\ \A i \in 1..Len(flight[b]) : flight[b][i].then \notin Keys
  BY <1>3 DEF StepInv, Stage
<1>9. CASE UNCHANGED <<blob, flight, inStep>>
  <2>1. Typed' BY <1>5, <1>9 DEF StepInv, Typed
  <2>2. \A c \in Blobs \ {b} : Left(c) BY <1>3, <1>5, <1>9 DEF Left
  <2>3. Stage(b)' BY <1>3, <1>7, <1>8, <1>9 DEF StepInv, Stage, Loaded
  <2>4. inStep'[b] => Leads(b)' BY <1>3, <1>9, LeadsStill DEF StepInv
  <2>. QED BY <1>1, <1>3, <2>1, <2>2, <2>3, <2>4, StepHere
<1>10. CASE r.ok /\ r.then \in Keys
  <2>1. flight[b] = <<>> BY <1>6, <1>10 DEF StepInv, Stage
  <2>2. PICK d : d = Obj(<<>>) OBVIOUS
  <2>3. PICK new : new = NewBlob(r.then) OBVIOUS
  <2>4. new = [id |-> r.then, secret |-> r.then, typo |-> None, data |-> FirstData,
               revision |-> 0]
    BY <2>3 DEF NewBlob, NoBlob
  <2>5. PICK p : p = Post("create", new, None) OBVIOUS
  <2>6. p.kind = "create" /\ p.newId = r.then /\ p.secret = r.then /\ p.data = FirstData
    BY <2>4, <2>5 DEF Post
  <2>7. /\ blob' = [blob EXCEPT ![b] = new] /\ UNCHANGED flight
        /\ inStep' = [inStep EXCEPT ![b] = account = Handled(NoAccount, p)]
    BY <1>3, <1>10, <2>3, <2>5
  <2>8. Typed'
    <3>1. PICK B : blob \in [Blobs -> [id : B, secret : B, typo : B, data : B, revision : B]]
      BY DEF StepInv, Typed
    <3>. DEFINE C == B \cup {r.then, None, FirstData, 0}
    <3>2. new \in [id : C, secret : C, typo : C, data : C, revision : C] BY <2>4
    <3>3. \A c \in Blobs : blob[c] \in [id : C, secret : C, typo : C, data : C, revision : C]
      BY <3>1
    <3>. HIDE DEF C
    <3>4. blob' \in [Blobs -> [id : C, secret : C, typo : C, data : C, revision : C]]
      BY <2>7, <3>1, <3>2, <3>3
    <3>5. inStep' \in [Blobs -> BOOLEAN] BY <2>7 DEF StepInv, Typed
    <3>. QED BY <1>5, <3>4, <3>5 DEF Typed
  <2>9. /\ blob'[b] = new /\ \A c \in Blobs \ {b} : blob'[c] = blob[c]
        /\ (inStep'[b] => account = Handled(NoAccount, p))
        /\ \A c \in Blobs \ {b} : inStep'[c] = inStep[c]
    BY <2>7 DEF StepInv, Typed
  <2>10. Stage(b)'
    <3>1. Loaded(b)' BY <1>10, <2>4, <2>9, VaultAssumption DEF Loaded
    <3>. QED BY <1>3, <1>7, <1>8, <2>7, <3>1 DEF Stage
  <2>11. ASSUME inStep'[b] PROVE Leads(b)'
    <3>1. account = Handled(NoAccount, p) BY <2>9, <2>11
    <3>2. account.id = r.then /\ account.secret = r.then /\ account.data = FirstData
          /\ account.patches = <<>>
      BY <2>6, <3>1 DEF Handled, Accepts, NoAccount
    <3>3. PICK m : m = [id |-> r.then, secret |-> r.then, doc |-> FirstData] OBVIOUS
    <3>4. PICK run : run = [j \in 0..0 |-> m] OBVIOUS
    <3>5. run[0] = m BY <3>4
    <3>6. Decrypted(account).ok /\ Decrypted(account).doc = FirstData
      <4>1. <<>> \in Seq({}) /\ Len(<<>>) = 0 OBVIOUS
      <4>2. State(FirstData, <<>>, 0) = Done(FirstData)
            /\ State(FirstData, <<>>, 0) = Replayed(FirstData, <<>>)
        BY <4>1, StateFirst, StateLast
      <4>. QED BY <3>2, <4>2 DEF Decrypted, Done
    <3>7. Says(account', run[0]) BY <1>3, <3>2, <3>3, <3>5, <3>6 DEF Says
    <3>8. Len(flight'[b]) = 0 BY <2>1, <2>7
    <3>9. Steps(run, flight'[b]) BY <3>8 DEF Steps
    <3>10. Holds(blob'[b], m) BY <2>4, <2>9, <3>3 DEF Holds
    <3>. QED BY <3>5, <3>7, <3>8, <3>9, <3>10 DEF Leads
  <2>12. \A c \in Blobs \ {b} : Left(c) BY <1>3, <1>5, <2>7, <2>9 DEF Left
  <2>. QED BY <1>1, <1>3, <2>8, <2>10, <2>11, <2>12, StepHere
<1>11. CASE Update(b, FieldUpdate(r.then), None)
  <2>1. None \notin Keys BY VaultAssumption
  <2>. QED BY <1>3, <1>5, <1>7, <1>8, <1>11, <2>1, StepUpdates
<1>. QED BY <1>3, <1>9, <1>10, <1>11

LEMMA StepStart == ASSUME Init PROVE StepInv
<1>1. LogInv BY LogStart
<1>2. /\ blob = [b \in Blobs |-> NoBlob] /\ flight = [b \in Blobs |-> <<>>]
      /\ replies = [b \in Blobs |-> <<>>] /\ fetched = [b \in Blobs |-> NoAccount]
      /\ inStep = [b \in Blobs |-> FALSE]
  BY DEF Init
<1>3. Typed
  <2>1. PICK d : d = Obj(<<>>) OBVIOUS
  <2>. DEFINE B == {None, d, 0}
  <2>2. NoBlob \in [id : B, secret : B, typo : B, data : B, revision : B]
    BY <2>1 DEF NoBlob
  <2>. HIDE DEF B
  <2>3. blob \in [Blobs -> [id : B, secret : B, typo : B, data : B, revision : B]]
    BY <1>2, <2>2
  <2>4. replies \in [Blobs -> Seq({})] /\ inStep \in [Blobs -> BOOLEAN] BY <1>2
  <2>. QED BY <2>3, <2>4 DEF Typed
<1>4. ASSUME NEW b \in Blobs PROVE Stage(b) /\ ~inStep[b]
  <2>1. /\ flight[b] = <<>> /\ replies[b] = <<>> /\ fetched[b] = NoAccount
        /\ ~inStep[b] /\ Len(<<>>) = 0
    BY <1>2
  <2>. QED BY <2>1 DEF Stage
<1>. QED BY <1>1, <1>3, <1>4 DEF StepInv

-----------------------------------------------------------------------------
(* The blobs that may be consolidated.                                       *)

\* A blob that is not ahead is at its revision; one that is yet to be created
\* will be.
AtRevision(b) ==
  /\ Loaded(b) /\ b \notin ahead => Held(blob[b].revision, blob[b].data)
  /\ \A i \in 1..Len(flight[b]) : flight[b][i].then \in Keys =>
       flight[b][i].kind = "create" /\ flight[b][i].data = FirstData
  /\ \A i \in 1..Len(replies[b]) : replies[b][i].then \in Keys /\ replies[b][i].ok =>
       Held(0, FirstData)

StaysHeld == \A r, d : Held(r, d) => Held(r, d)'

LEMMA HeldStays ==
  ASSUME StaysSound
  PROVE  StaysHeld
<1>. SUFFICES ASSUME NEW r, NEW d, Held(r, d) PROVE Held(r, d)' BY DEF StaysHeld
<1>1. PICK p : p.kind = "consolidate" /\ p.revision = r /\ p.data = d
  <2>1. PICK p : p = [kind |-> "consolidate", revision |-> r, data |-> d] OBVIOUS
  <2>. QED BY <2>1
<1>2. Sound(p) BY <1>1 DEF Sound
<1>3. Sound(p)' BY <1>2 DEF StaysSound
<1>. QED BY <1>1, <1>3 DEF Sound

\* A step of b.
LEMMA RevisionStep ==
  ASSUME \A c \in Blobs : AtRevision(c), StaysHeld, NEW b \in Blobs, AtRevision(b)',
         \A c \in Blobs \ {b} :
           /\ blob'[c] = blob[c] /\ flight'[c] = flight[c] /\ replies'[c] = replies[c]
           /\ c \in ahead => c \in ahead'
  PROVE  \A c \in Blobs : AtRevision(c)'
<1>1. ASSUME NEW c \in Blobs \ {b} PROVE AtRevision(c)'
  <2>1. AtRevision(c) OBVIOUS
  <2>2. (Loaded(c) /\ c \notin ahead => Held(blob[c].revision, blob[c].data))'
    BY <2>1 DEF AtRevision, StaysHeld, Loaded
  <2>3. \A i \in 1..Len(replies'[c]) : replies'[c][i].then \in Keys /\ replies'[c][i].ok =>
          Held(0, FirstData)'
    BY <2>1 DEF AtRevision, StaysHeld
  <2>. QED BY <2>1, <2>2, <2>3 DEF AtRevision
<1>. QED BY <1>1

\* Nothing of a blob changes.
LEMMA RevisionSame ==
  ASSUME NEW b \in Blobs, AtRevision(b), StaysHeld, blob'[b] = blob[b],
         flight'[b] = flight[b], replies'[b] = replies[b], UNCHANGED ahead
  PROVE  AtRevision(b)'
<1>1. (Loaded(b) /\ b \notin ahead => Held(blob[b].revision, blob[b].data))'
  BY DEF AtRevision, StaysHeld, Loaded
<1>2. \A i \in 1..Len(replies'[b]) : replies'[b][i].then \in Keys /\ replies'[b][i].ok =>
        Held(0, FirstData)'
  BY DEF AtRevision, StaysHeld
<1>. QED BY <1>1, <1>2 DEF AtRevision

\* Where no account is waited for, what the blob holds is all that counts.
LEMMA RevisionLoaded ==
  ASSUME NEW b \in Blobs,
         \A i \in 1..Len(flight'[b]) : flight'[b][i].then \notin Keys,
         \A i \in 1..Len(replies'[b]) : replies'[b][i].then \notin Keys,
         Loaded(b)' /\ b \notin ahead' => Held(blob[b].revision, blob[b].data)'
  PROVE  AtRevision(b)'
BY DEF AtRevision

LEMMA SendsNoKeys ==
  ASSUME LogInv, NEW b \in Blobs, NEW p, p.then \notin Keys,
         \A i \in 1..Len(flight[b]) : flight[b][i].then \notin Keys,
         Sends(b, p) \/ UNCHANGED flight
  PROVE  /\ \A i \in 1..Len(flight'[b]) : flight'[b][i].then \notin Keys
         /\ \A c \in Blobs \ {b} : flight'[c] = flight[c]
<1>1. CASE UNCHANGED flight BY <1>1
<1>2. CASE Sends(b, p)
  <2>1. /\ Len(flight'[b]) = Len(flight[b]) + 1 /\ flight'[b][Len(flight[b]) + 1] = p
        /\ \A i \in 1..Len(flight[b]) : flight'[b][i] = flight[b][i]
        /\ Len(flight[b]) \in Nat /\ \A c \in Blobs \ {b} : flight'[c] = flight[c]
    BY <1>2, SendsTo
  <2>2. ASSUME NEW i \in 1..Len(flight'[b]) PROVE flight'[b][i].then \notin Keys
    <3>1. CASE i = Len(flight[b]) + 1 BY <2>1, <3>1
    <3>2. CASE i # Len(flight[b]) + 1
      <4>1. i \in 1..Len(flight[b]) BY <2>1, <3>2
      <4>. QED BY <2>1, <4>1
    <3>. QED BY <3>1, <3>2
  <2>. QED BY <2>1, <2>2
<1>. QED BY <1>1, <1>2

\* What is to be shown of the blobs, and what each call does to it.
Revisions == \A b \in Blobs : AtRevision(b)

LEMMA RevisionUpdates ==
  ASSUME StepInv, Revisions, NEW b \in Blobs, NEW u, NEW then,
         then \notin Keys, Update(b, u, then),
         UNCHANGED <<account, origin, log>>,
         \A i \in 1..Len(flight[b]) : flight[b][i].then \notin Keys,
         \A c \in Blobs \ {b} : replies'[c] = replies[c],
         \A i \in 1..Len(replies'[b]) : replies'[b][i].then \notin Keys
  PROVE  Revisions'
<1>. DEFINE r == Apply(blob[b].data, u)
<1>1. /\ blob' = [blob EXCEPT ![b].data = r.doc]
      /\ Sends(b, Patch(blob[b], u, then)) \/ UNCHANGED flight
      /\ ahead' = IF r.doc = blob[b].data THEN ahead ELSE ahead \cup {b}
  BY DEF Update
<1>2. PICK B : blob \in [Blobs -> [id : B, secret : B, typo : B, data : B, revision : B]]
  BY DEF StepInv, Typed
<1>3. /\ blob'[b].id = blob[b].id /\ blob'[b].revision = blob[b].revision
      /\ blob'[b].data = r.doc /\ \A c \in Blobs \ {b} : blob'[c] = blob[c]
  BY <1>1, <1>2
<1>4. PICK p : p = Patch(blob[b], u, then) OBVIOUS
<1>5. p.then = then BY <1>4 DEF Patch, Post
<1>6. /\ \A i \in 1..Len(flight'[b]) : flight'[b][i].then \notin Keys
      /\ \A c \in Blobs \ {b} : flight'[c] = flight[c]
  BY <1>1, <1>4, <1>5, SendsNoKeys DEF StepInv
<1>7. StaysHeld BY Nothing, HeldStays
<1>8. ASSUME Loaded(b)', b \notin ahead' PROVE Held(blob[b].revision, blob[b].data)'
  <2>1. r.doc = blob[b].data /\ b \notin ahead BY <1>1, <1>8
  <2>2. Held(blob[b].revision, blob[b].data)
    BY <1>3, <1>8, <2>1 DEF Revisions, AtRevision, Loaded
  <2>. QED BY <1>3, <1>7, <2>1, <2>2 DEF StaysHeld
<1>9. AtRevision(b)' BY <1>6, <1>8, RevisionLoaded
<1>. QED BY <1>1, <1>3, <1>6, <1>7, <1>9, RevisionStep DEF Revisions

LEMMA RevisionCalls ==
  ASSUME StepInv, Revisions, NEW b \in Blobs, Loaded(b), NEW u, NEW then,
         then \notin Keys, Update(b, u, then), UNCHANGED <<account, origin, log, replies>>
  PROVE  Revisions'
<1>1. /\ \A i \in 1..Len(flight[b]) : flight[b][i].then \notin Keys
      /\ \A i \in 1..Len(replies'[b]) : replies'[b][i].then \notin Keys
  BY InUse
<1>. QED BY <1>1, RevisionUpdates

\* Requests that change neither data nor revision: new keys, a consolidation.
LEMMA RevisionSends ==
  ASSUME StepInv, Revisions, NEW b \in Blobs, Loaded(b), NEW p, p.then = None, Sends(b, p),
         blob'[b].revision = blob[b].revision, blob'[b].data = blob[b].data,
         \A c \in Blobs \ {b} : blob'[c] = blob[c],
         UNCHANGED <<account, origin, log, replies, ahead>>
  PROVE  Revisions'
<1>1. /\ \A i \in 1..Len(flight'[b]) : flight'[b][i].then \notin Keys
      /\ \A c \in Blobs \ {b} : flight'[c] = flight[c]
  <2>1. p.then \notin Keys BY VaultAssumption
  <2>. QED BY <2>1, InUse, SendsNoKeys DEF StepInv
<1>2. \A i \in 1..Len(replies'[b]) : replies'[b][i].then \notin Keys BY InUse
<1>3. StaysHeld BY Nothing, HeldStays
<1>4. b \notin ahead' => Held(blob[b].revision, blob[b].data)'
  BY <1>3 DEF Revisions, AtRevision, StaysHeld
<1>5. AtRevision(b)' BY <1>1, <1>2, <1>4, RevisionLoaded
<1>. QED BY <1>1, <1>3, <1>5, RevisionStep DEF Revisions

LEMMA RevisionKeys ==
  ASSUME StepInv, Revisions, NEW b \in Blobs, Loaded(b), NEW k,
         \/ blob' = [blob EXCEPT ![b].id = k, ![b].secret = k]
         \/ blob' = [blob EXCEPT ![b].id = k, ![b].typo = k],
         Sends(b, NewKeys(blob[b], k)),
         UNCHANGED <<account, origin, log, replies, ahead>>
  PROVE  Revisions'
<1>1. PICK B : blob \in [Blobs -> [id : B, secret : B, typo : B, data : B, revision : B]]
  BY DEF StepInv, Typed
<1>2. /\ blob'[b].revision = blob[b].revision /\ blob'[b].data = blob[b].data
      /\ \A c \in Blobs \ {b} : blob'[c] = blob[c]
  BY <1>1
<1>3. NewKeys(blob[b], k).then = None BY DEF NewKeys, Post
<1>. QED BY <1>2, <1>3, RevisionSends

LEMMA RevisionConsolidates ==
  ASSUME StepInv, Revisions, NEW b \in Blobs, Consolidate(b)
  PROVE  Revisions'
<1>1. Consolidation(blob[b]).then = None BY DEF Consolidation, Post
<1>. QED BY <1>1, RevisionSends DEF Consolidate

LEMMA RevisionStays ==
  ASSUME Revisions, UNCHANGED <<account, origin, log, blob, flight, replies, ahead>>
  PROVE  Revisions'
<1>1. StaysHeld BY Nothing, HeldStays
<1>. QED BY <1>1, RevisionSame DEF Revisions

LEMMA RevisionRegisters ==
  ASSUME StepInv, Revisions, NEW b \in Blobs, NEW k \in Keys, Register(b, k)
  PROVE  Revisions'
<1>1. /\ ~Loaded(b) /\ flight[b] = <<>> /\ replies[b] = <<>>
      /\ UNCHANGED <<account, origin, log, blob, replies, ahead>>
  BY DEF Register, Unused
<1>2. PICK p : p = Post("create", NewBlob(k), k) OBVIOUS
<1>3. p.kind = "create" /\ p.data = FirstData
  BY <1>2 DEF Post, NewBlob, NoBlob
<1>4. Len(flight'[b]) = 1 /\ flight'[b][1] = p
      /\ \A c \in Blobs \ {b} : flight'[c] = flight[c]
  <2>1. Sends(b, p) BY <1>2 DEF Register
  <2>. QED BY <1>1, <2>1, SendsFirst DEF StepInv
<1>5. StaysHeld BY <1>1, Nothing, HeldStays
<1>6. AtRevision(b)'
  <2>1. ~Loaded(b)' BY <1>1 DEF Loaded
  <2>2. \A i \in 1..Len(flight'[b]) : flight'[b][i] = p BY <1>4
  <2>3. Len(replies'[b]) = 0 BY <1>1
  <2>. QED BY <1>3, <2>1, <2>2, <2>3 DEF AtRevision
<1>. QED BY <1>1, <1>4, <1>5, <1>6, RevisionStep DEF Revisions

LEMMA RevisionLoads ==
  ASSUME StepInv, Revisions, NEW b \in Blobs, Load(b)
  PROVE  Revisions'
<1>. DEFINE a == fetched[b]
            r == Decrypted(a)
<1>1. PICK new :
        /\ new = [id |-> a.id, secret |-> a.secret, typo |-> None, data |-> r.doc,
                  revision |-> a.revision + Applied(a)]
        /\ a # NoAccount /\ blob' = [blob EXCEPT ![b] = new]
        /\ IF a.patches # <<>> /\ r.ok
           THEN Sends(b, Consolidation(new)) ELSE UNCHANGED flight
        /\ ahead' = IF r.ok THEN ahead ELSE ahead \cup {b}
        /\ UNCHANGED <<account, origin, log, replies>>
  BY DEF Load
<1>2. flight[b] = <<>> /\ replies[b] = <<>> BY <1>1 DEF StepInv, Stage
<1>3. blob'[b] = new /\ \A c \in Blobs \ {b} : blob'[c] = blob[c]
  BY <1>1 DEF StepInv, Typed
<1>4. PICK p : p = Consolidation(new) OBVIOUS
<1>5. p.then \notin Keys BY <1>4, VaultAssumption DEF Consolidation, Post
<1>6. \A i \in 1..Len(flight[b]) : flight[b][i].then \notin Keys
  <2>1. Len(flight[b]) = 0 BY <1>2
  <2>. QED BY <2>1
<1>7. /\ \A i \in 1..Len(flight'[b]) : flight'[b][i].then \notin Keys
      /\ \A c \in Blobs \ {b} : flight'[c] = flight[c]
  BY <1>1, <1>4, <1>5, <1>6, SendsNoKeys DEF StepInv
<1>8. \A i \in 1..Len(replies'[b]) : replies'[b][i].then \notin Keys
  <2>1. Len(replies'[b]) = 0 BY <1>1, <1>2
  <2>. QED BY <2>1
<1>9. StaysHeld BY <1>1, Nothing, HeldStays
<1>10. ASSUME b \notin ahead' PROVE Held(blob[b].revision, blob[b].data)'
  <2>1. r.ok BY <1>1, <1>10
  <2>2. Held(a.revision + Applied(a), r.doc) BY <1>1, <2>1, LoadHolds DEF StepInv
  <2>3. blob'[b].revision = a.revision + Applied(a) /\ blob'[b].data = r.doc
    BY <1>1, <1>3
  <2>. QED BY <1>9, <2>2, <2>3 DEF StaysHeld
<1>11. AtRevision(b)' BY <1>7, <1>8, <1>10, RevisionLoaded
<1>. QED BY <1>1, <1>3, <1>7, <1>9, <1>11, RevisionStep DEF Revisions

\* The requests of b without one; what was answered to it.
LEMMA RevisionAnswers ==
  ASSUME StepInv, Revisions, StaysHeld, NEW b \in Blobs, NEW i \in 1..Len(flight[b]),
         NEW ok, flight' = [flight EXCEPT ![b] = RemoveAt(@, i)],
         Answers(b, flight[b][i], ok), UNCHANGED <<blob, ahead>>,
         flight[b][i].then \in Keys /\ ok => Held(0, FirstData)'
  PROVE  Revisions'
<1>. DEFINE list == flight[b]
<1>1. AtRevision(b) /\ Typed BY DEF StepInv, Revisions
<1>2. flight'[b] = RemoveAt(list, i) /\ \A c \in Blobs \ {b} : flight'[c] = flight[c]
  BY RemovesFrom DEF StepInv
<1>3. PICK F : list \in Seq(F) BY DEF StepInv, LogInv, FlightInv
<1>4. PICK R : replies[b] \in Seq(R) BY <1>1 DEF Typed
<1>5. ASSUME NEW k \in 1..Len(flight'[b])
      PROVE  \E j \in 1..Len(list) : flight'[b][k] = list[j]
  <2>1. Len(RemoveAt(list, i)) = Len(list) - 1
        /\ \A n \in 1..Len(list) - 1 :
             RemoveAt(list, i)[n] = list[IF n < i THEN n ELSE n + 1]
    <3>. HIDE DEF list
    <3>1. i \in 1..Len(list) BY DEF list
    <3>. QED BY <1>3, <3>1, RemovedAt
  <2>2. Len(list) \in Nat BY <1>3
  <2>3. k \in 1..Len(list) - 1 /\ (IF k < i THEN k ELSE k + 1) \in 1..Len(list)
    BY <1>2, <2>1, <2>2
  <2>. QED BY <1>2, <2>1, <2>3
<1>6. PICK r : r = [then |-> list[i].then, ok |-> ok] OBVIOUS
<1>7. /\ \A c \in Blobs \ {b} : replies'[c] = replies[c]
      /\ replies'[b] = replies[b] \/ replies'[b] = Append(replies[b], r)
  BY <1>1, <1>6, AnswersTo
<1>8. ASSUME NEW k \in 1..Len(replies'[b]), replies'[b][k].then \in Keys, replies'[b][k].ok
      PROVE  Held(0, FirstData)'
  <2>1. ASSUME NEW j \in 1..Len(replies[b]), replies'[b][k] = replies[b][j]
        PROVE  Held(0, FirstData)'
    <3>1. Held(0, FirstData) BY <1>1, <1>8, <2>1 DEF AtRevision
    <3>. QED BY <3>1 DEF StaysHeld
  <2>2. CASE replies'[b] = replies[b] BY <2>1, <2>2
  <2>3. CASE replies'[b] = Append(replies[b], r)
    <3>1. /\ Len(replies'[b]) = Len(replies[b]) + 1 /\ replies'[b][Len(replies[b]) + 1] = r
          /\ Len(replies[b]) \in Nat
          /\ \A j \in 1..Len(replies[b]) : replies'[b][j] = replies[b][j]
      BY <1>4, <2>3, Appended
    <3>2. CASE k = Len(replies[b]) + 1 BY <1>6, <1>8, <3>1, <3>2
    <3>3. CASE k # Len(replies[b]) + 1
      <4>1. k \in 1..Len(replies[b]) BY <3>1, <3>3
      <4>. QED BY <2>1, <3>1, <4>1
    <3>. QED BY <3>2, <3>3
  <2>. QED BY <1>7, <2>2, <2>3
<1>9. AtRevision(b)'
  <2>1. (Loaded(b) /\ b \notin ahead => Held(blob[b].revision, blob[b].data))'
    BY <1>1 DEF AtRevision, StaysHeld, Loaded
  <2>2. \A k \in 1..Len(flight'[b]) : flight'[b][k].then \in Keys =>
          flight'[b][k].kind = "create" /\ flight'[b][k].data = FirstData
    BY <1>1, <1>5 DEF AtRevision
  <2>. QED BY <1>8, <2>1, <2>2 DEF AtRevision
<1>. QED BY <1>2, <1>7, <1>9, RevisionStep DEF Revisions

LEMMA RevisionArrives ==
  ASSUME StepInv, Revisions, NEW b \in Blobs, NEW i \in 1..Len(flight[b]),
         NEW lost \in BOOLEAN, Arrives(b, i, lost)
  PROVE  Revisions'
<1>1. PICK p : p = flight[b][i] OBVIOUS
<1>2. /\ Accepts(account, p) /\ account' = Handled(account, p)
      /\ origin' = IF p.kind \in {"create", "keys"} THEN p.data ELSE origin
      /\ log' = CASE p.kind \in {"create", "keys"} -> <<>>
                  [] p.kind = "patch" -> Append(log, p.update)
                  [] OTHER -> log
      /\ flight' = [flight EXCEPT ![b] = RemoveAt(@, i)]
      /\ Answers(b, flight[b][i], ~lost) /\ UNCHANGED <<blob, ahead>>
  BY <1>1 DEF Arrives
<1>3. LogInv /\ AccountInv' /\ StaysSound BY ArrivesStays DEF StepInv
<1>4. StaysHeld BY <1>3, HeldStays
<1>5. ASSUME p.then \in Keys PROVE Held(0, FirstData)'
  <2>1. p.kind = "create" /\ p.data = FirstData
    BY <1>1, <1>5 DEF Revisions, AtRevision
  <2>2. account.revision \in Nat /\ Len(account.patches) \in Nat
    BY <1>3, LogOf DEF LogInv
  <2>3. /\ account'.id = p.newId /\ account'.data = FirstData /\ account'.patches = <<>>
        /\ account'.revision = account.revision + Len(account.patches)
    BY <1>2, <2>1, <2>2 DEF Handled
  <2>4. account'.id # None
    <3>1. Sound(p) BY <1>1, <1>3 DEF LogInv, FlightInv
    <3>. QED BY <2>1, <2>3, <3>1 DEF Sound
  <2>5. log' = <<>> BY <1>2, <2>1
  <2>6. Base' = account'.revision /\ Base' \in Nat BY <2>2, <2>3, <2>5 DEF Base
  <2>7. CASE Base' # 0
    <3>1. 0 < Base' BY <2>6, <2>7
    <3>. QED BY <2>4, <3>1 DEF Held
  <2>8. CASE Base' = 0
    <3>1. IsState(account.revision, account.data)' BY <1>3 DEF AccountInv, Current
    <3>2. IsState(0, FirstData)' BY <2>3, <2>6, <2>8, <3>1 DEF IsState
    <3>. QED BY <2>4, <3>2 DEF Held
  <2>. QED BY <2>7, <2>8
<1>. QED BY <1>1, <1>2, <1>4, <1>5, RevisionAnswers

LEMMA RevisionFails ==
  ASSUME StepInv, Revisions, NEW b \in Blobs, NEW i \in 1..Len(flight[b]), Fails(b, i)
  PROVE  Revisions'
<1>1. /\ flight' = [flight EXCEPT ![b] = RemoveAt(@, i)]
      /\ Answers(b, flight[b][i], FALSE) /\ UNCHANGED <<account, origin, log, blob, ahead>>
  BY DEF Fails
<1>2. StaysHeld BY <1>1, Nothing, HeldStays
<1>. QED BY <1>1, <1>2, RevisionAnswers

LEMMA RevisionReplied ==
  ASSUME StepInv, Revisions, NEW b \in Blobs, Replied(b)
  PROVE  Revisions'
<1>1. PICK r : r = Head(replies[b]) OBVIOUS
<1>2. /\ replies[b] # <<>> /\ replies' = [replies EXCEPT ![b] = Tail(@)]
      /\ IF ~r.ok THEN UNCHANGED <<blob, flight, ahead>>
         ELSE IF r.then \in Keys
         THEN blob' = [blob EXCEPT ![b] = NewBlob(r.then)] /\ UNCHANGED <<flight, ahead>>
         ELSE Update(b, FieldUpdate(r.then), None)
      /\ UNCHANGED <<account, origin, log>>
  BY <1>1 DEF Replied
<1>3. PICK R : replies \in [Blobs -> Seq(R)] BY DEF StepInv, Typed
<1>4. replies[b] \in Seq(R) /\ replies'[b] = Tail(replies[b])
      /\ \A c \in Blobs \ {b} : replies'[c] = replies[c]
  BY <1>2, <1>3
<1>5. /\ 1 \in 1..Len(replies[b]) /\ replies[b][1] = r
      /\ \A k \in 1..Len(replies'[b]) :
           k + 1 \in 1..Len(replies[b]) /\ replies'[b][k] = replies[b][k + 1]
           /\ Len(replies[b]) # 1
  <2>. DEFINE list == replies[b]
  <2>1. list \in Seq(R) /\ list # <<>> /\ r = Head(list) /\ replies'[b] = Tail(list)
    BY <1>1, <1>2, <1>4
  <2>. HIDE DEF list
  <2>2. /\ Len(list) \in Nat \ {0} /\ list[1] = r
        /\ Len(replies'[b]) = Len(list) - 1
        /\ \A k \in 1..Len(replies'[b]) : replies'[b][k] = list[k + 1]
    BY <2>1
  <2>3. \A k \in 1..Len(replies'[b]) : k + 1 \in 1..Len(list) /\ Len(list) # 1
    BY <2>2
  <2>. QED BY <2>2, <2>3 DEF list
<1>6. /\ \A k \in 1..Len(replies'[b]) : replies'[b][k].then \notin Keys
      /\ \A k \in 1..Len(flight[b]) : flight[b][k].then \notin Keys
  BY <1>2, <1>5 DEF StepInv, Stage
<1>7. StaysHeld BY <1>2, Nothing, HeldStays
<1>8. CASE UNCHANGED <<blob, flight, ahead>>
  <2>1. (Loaded(b) /\ b \notin ahead => Held(blob[b].revision, blob[b].data))'
    BY <1>7, <1>8 DEF Revisions, AtRevision, StaysHeld, Loaded
  <2>2. \A k \in 1..Len(flight'[b]) : flight'[b][k].then \notin Keys BY <1>6, <1>8
  <2>3. AtRevision(b)' BY <1>6, <2>1, <2>2, RevisionLoaded
  <2>. QED BY <1>4, <1>7, <1>8, <2>3, RevisionStep DEF Revisions
<1>9. CASE r.ok /\ r.then \in Keys
  <2>1. blob' = [blob EXCEPT ![b] = NewBlob(r.then)] /\ UNCHANGED <<flight, ahead>>
    BY <1>2, <1>9
  <2>2. PICK new : new = NewBlob(r.then) OBVIOUS
  <2>3. new.revision = 0 /\ new.data = FirstData BY <2>2 DEF NewBlob, NoBlob
  <2>4. blob'[b] = new /\ \A c \in Blobs \ {b} : blob'[c] = blob[c]
    BY <2>1, <2>2 DEF StepInv, Typed
  <2>5. Held(0, FirstData) BY <1>5, <1>9 DEF Revisions, AtRevision
  <2>6. Held(blob[b].revision, blob[b].data)' BY <1>7, <2>3, <2>4, <2>5 DEF StaysHeld
  <2>7. \A k \in 1..Len(flight'[b]) : flight'[b][k].then \notin Keys BY <1>6, <2>1
  <2>8. AtRevision(b)' BY <1>6, <2>6, <2>7, RevisionLoaded
  <2>. QED BY <1>4, <1>7, <2>1, <2>4, <2>8, RevisionStep DEF Revisions
<1>10. CASE Update(b, FieldUpdate(r.then), None)
  <2>1. None \notin Keys BY VaultAssumption
  <2>. QED BY <1>2, <1>4, <1>6, <1>10, <2>1, RevisionUpdates
<1>. QED BY <1>2, <1>8, <1>9, <1>10

-----------------------------------------------------------------------------
(* All of it holds until a blob that is ahead is consolidated.               *)

VaultInv == repeated \/ (StepInv /\ Revisions)

LEMMA InvStart == ASSUME Init PROVE VaultInv
<1>1. \A b \in Blobs : ~Loaded(b) /\ flight[b] = <<>> /\ replies[b] = <<>>
  BY DEF Init, NoBlob, Loaded
<1>2. Len(<<>>) = 0 OBVIOUS
<1>3. Revisions BY <1>1, <1>2 DEF Revisions, AtRevision
<1>. QED BY <1>3, StepStart DEF VaultInv

\* What one blob's step may be.
BlobStep(b) ==
  \/ \E k \in Keys : \/ Register(b, k) \/ Login(b, k)
                      \/ ChangePassword(b, k) \/ RenameUser(b, k)
  \/ Recover(b) \/ Load(b) \/ Consolidate(b) \/ Migrate(b) \/ Replied(b)
  \/ \E u \in Updates : Change(b, u)
  \/ \E f \in Fields : SetIdentity(b, f) \/ UnsetIdentity(b, f)
  \/ \E i \in 1..Len(flight[b]) :
       (\E lost \in BOOLEAN : Arrives(b, i, lost)) \/ Fails(b, i)

LEMMA InvNext ==
  ASSUME VaultInv, [Next]_vars PROVE VaultInv'
<1>. USE VaultAssumption
<1>. DEFINE Goal == StepInv' /\ Revisions'
<1>1. CASE repeated
  <2>1. CASE UNCHANGED vars BY <1>1, <2>1 DEF VaultInv, vars
  <2>2. CASE Next
    <3>. SUFFICES repeated' BY DEF VaultInv
    <3>1. PICK b \in Blobs : BlobStep(b) BY <2>2 DEF Next, BlobStep
    <3>2. CASE \E k \in Keys : \/ Register(b, k) \/ Login(b, k)
                               \/ ChangePassword(b, k) \/ RenameUser(b, k)
      BY <1>1, <3>2 DEF Register, Login, Fetch, ChangePassword, UpdateKeys, RenameUser, Rename
    <3>3. CASE Recover(b) \/ Load(b) \/ Consolidate(b) \/ Migrate(b) \/ Replied(b)
      BY <1>1, <3>3 DEF Recover, Fetch, Load, Consolidate, Migrate, UpdateKeys, Replied
    <3>4. CASE \/ \E u \in Updates : Change(b, u)
               \/ \E f \in Fields : SetIdentity(b, f) \/ UnsetIdentity(b, f)
      BY <1>1, <3>4 DEF Change, SetIdentity, UnsetIdentity
    <3>5. CASE \E i \in 1..Len(flight[b]) :
                 (\E lost \in BOOLEAN : Arrives(b, i, lost)) \/ Fails(b, i)
      BY <1>1, <3>5 DEF Arrives, Fails
    <3>. QED BY <3>1, <3>2, <3>3, <3>4, <3>5 DEF BlobStep
  <2>. QED BY <2>1, <2>2
<1>2. CASE ~repeated /\ ~repeated'
  <2>1. StepInv /\ Revisions BY <1>2 DEF VaultInv
  <2>2. ASSUME NEW b \in Blobs, Fetch(b) PROVE Goal
    <3>1. UNCHANGED <<account, origin, log, blob, flight, replies, ahead>>
      BY <2>2 DEF Fetch
    <3>. QED BY <2>1, <2>2, <3>1, StepFetches, RevisionStays
  <2>3. ASSUME NEW b \in Blobs, NEW k \in Keys, Register(b, k) PROVE Goal
    BY <2>1, <2>3, StepRegisters, RevisionRegisters
  <2>4. ASSUME NEW b \in Blobs, NEW k \in Keys, Login(b, k) PROVE Goal
    BY <2>2, <2>4 DEF Login
  <2>5. ASSUME NEW b \in Blobs, Recover(b) PROVE Goal BY <2>2, <2>5 DEF Recover
  <2>6. ASSUME NEW b \in Blobs, NEW k, k # None, UpdateKeys(b, k) \/ Rename(b, k) PROVE Goal
    <3>1. /\ Loaded(b) /\ Sends(b, NewKeys(blob[b], k))
          /\ \/ blob' = [blob EXCEPT ![b].id = k, ![b].secret = k]
             \/ blob' = [blob EXCEPT ![b].id = k, ![b].typo = k]
          /\ UNCHANGED <<account, origin, log, replies, fetched, inStep, ahead>>
      BY <2>6 DEF UpdateKeys, Rename
    <3>. QED BY <2>1, <2>6, <3>1, StepKeys, RevisionKeys
  <2>7. ASSUME NEW b \in Blobs, NEW k \in Keys, ChangePassword(b, k) PROVE Goal
    BY <2>6, <2>7 DEF ChangePassword
  <2>8. ASSUME NEW b \in Blobs, NEW k \in Keys, RenameUser(b, k) PROVE Goal
    BY <2>6, <2>8 DEF RenameUser
  <2>9. ASSUME NEW b \in Blobs, Migrate(b) PROVE Goal
    BY <2>6, <2>9 DEF Migrate, UpdateKeys, Loaded
  <2>10. ASSUME NEW b \in Blobs, Load(b) PROVE Goal
    BY <2>1, <2>10, StepLoads, RevisionLoads
  <2>11. ASSUME NEW b \in Blobs, Consolidate(b) PROVE Goal
    <3>1. Loaded(b) /\ b \notin ahead /\ Sends(b, Consolidation(blob[b]))
          /\ UNCHANGED <<account, origin, log, blob, replies, fetched, inStep>>
      BY <1>2, <2>11 DEF Consolidate
    <3>2. Sound(Consolidation(blob[b]))
      BY <2>1, <3>1, SoundOf DEF Revisions, AtRevision
    <3>. QED BY <2>1, <2>11, <3>1, <3>2, StepConsolidates, RevisionConsolidates
  <2>12. ASSUME NEW b \in Blobs, Loaded(b), NEW u, NEW then, then \notin Keys,
                Update(b, u, then), UNCHANGED <<account, origin, log, fetched, replies>>
         PROVE  Goal
    BY <2>1, <2>12, StepCalls, RevisionCalls
  <2>13. ASSUME NEW b \in Blobs, NEW u \in Updates, Change(b, u) PROVE Goal
    BY <2>12, <2>13 DEF Change
  <2>14. ASSUME NEW b \in Blobs, NEW f \in Fields, SetIdentity(b, f) PROVE Goal
    <3>1. f \notin Keys OBVIOUS
    <3>2. CASE Update(b, FieldUpdate(f), None) BY <2>12, <2>14, <3>2 DEF SetIdentity
    <3>3. CASE Update(b, NewVault, f) BY <2>12, <2>14, <3>1, <3>3 DEF SetIdentity
    <3>. QED BY <2>14, <3>2, <3>3 DEF SetIdentity
  <2>15. ASSUME NEW b \in Blobs, NEW f \in Fields, UnsetIdentity(b, f) PROVE Goal
    BY <2>12, <2>15 DEF UnsetIdentity
  <2>16. ASSUME NEW b \in Blobs, Replied(b) PROVE Goal
    BY <2>1, <2>16, StepReplied, RevisionReplied
  <2>17. ASSUME NEW b \in Blobs, NEW i \in 1..Len(flight[b]), NEW lost \in BOOLEAN,
                Arrives(b, i, lost)
         PROVE  Goal
    BY <2>1, <2>17, StepArrives, RevisionArrives
  <2>18. ASSUME NEW b \in Blobs, NEW i \in 1..Len(flight[b]), Fails(b, i) PROVE Goal
    BY <2>1, <2>18, StepFails, RevisionFails
  <2>19. ASSUME UNCHANGED vars PROVE Goal
    <3>1. UNCHANGED <<account, origin, log, blob, flight, replies, ahead>> BY <2>19 DEF vars
    <3>. QED BY <2>1, <2>19, <3>1, StepStays, RevisionStays
  <2>. HIDE DEF Goal
  <2>20. ASSUME NEW b \in Blobs, BlobStep(b) PROVE Goal
    <3>1. CASE \E k \in Keys : \/ Register(b, k) \/ Login(b, k)
                               \/ ChangePassword(b, k) \/ RenameUser(b, k)
      BY <2>3, <2>4, <2>7, <2>8, <3>1
    <3>2. CASE Recover(b) \/ Load(b) \/ Consolidate(b) \/ Migrate(b) \/ Replied(b)
      BY <2>5, <2>9, <2>10, <2>11, <2>16, <3>2
    <3>3. CASE \/ \E u \in Updates : Change(b, u)
               \/ \E f \in Fields : SetIdentity(b, f) \/ UnsetIdentity(b, f)
      BY <2>13, <2>14, <2>15, <3>3
    <3>4. CASE \E i \in 1..Len(flight[b]) :
                 (\E lost \in BOOLEAN : Arrives(b, i, lost)) \/ Fails(b, i)
      BY <2>17, <2>18, <3>4
    <3>. QED BY <2>20, <3>1, <3>2, <3>3, <3>4 DEF BlobStep
  <2>21. Goal
    <3>1. CASE Next
      <4>1. \E b \in Blobs : BlobStep(b) BY <3>1 DEF Next, BlobStep
      <4>. QED BY <2>20, <4>1
    <3>2. CASE UNCHANGED vars BY <2>19, <3>2
    <3>. QED BY <3>1, <3>2
  <2>. QED BY <2>21 DEF Goal, VaultInv
<1>. QED BY <1>1, <1>2 DEF VaultInv

\* Whatever updates do, from whichever clients and however late consolidations
\* arrive, a login's or an application's: unless it had a blob consolidated that
\* was ahead of its revision, what a login reads is every accepted patch in
\* order, up to one that throws (blob.js:100-124, 138-174).
THEOREM NoPatchLost == Spec => []NothingLost
<1>1. VaultInv => NothingLost BY LogReads DEF VaultInv, StepInv, LogInv, NothingLost
<1>. QED BY <1>1, InvStart, InvNext, PTL DEF Spec

\* Whatever updates do, a blob that is the only one written to, and none of
\* whose requests failed or was overtaken, holds the ID, key and data that the
\* account will have once they have arrived (blob.js:136-177, 183-198), unless
\* a blob was consolidated that was ahead of its revision.
THEOREM BlobInStep == Spec => []InStep
<1>1. VaultInv => InStep BY LeadsInStep DEF VaultInv, StepInv, InStep
<1>. QED BY <1>1, InvStart, InvNext, PTL DEF Spec
=============================================================================

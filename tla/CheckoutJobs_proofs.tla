------------------------ MODULE CheckoutJobs_proofs ------------------------
(***************************************************************************)
(* The safety properties of CheckoutJobs, for any links, token texts and   *)
(* limits.                                                                 *)
(***************************************************************************)
EXTENDS CheckoutJobs, SequenceTheorems, FiniteSetTheorems, TLAPS

(***************************************************************************)
(* What the operations on the queue do to its members.                     *)
(***************************************************************************)

LEMMA PlaceFacts ==
  ASSUME NEW q, NEW j, q \in Seq(Links), Contains(q, j)
  PROVE  Place(q, j) \in DOMAIN q /\ q[Place(q, j)] = j
<1>1. \E i \in DOMAIN q : q[i] = j
  BY DEF Contains
<1> QED BY <1>1 DEF Place

LEMMA AppendFacts ==
  ASSUME NEW q, NEW e \in Links, q \in Seq(Links), IsInjective(q), ~Contains(q, e)
  PROVE  /\ Append(q, e) \in Seq(Links)
         /\ IsInjective(Append(q, e))
         /\ \A j : Contains(Append(q, e), j) <=> Contains(q, j) \/ j = e
<1> DEFINE r == Append(q, e)
<1>1. /\ r \in Seq(Links) /\ Len(r) = Len(q) + 1 /\ Len(q) \in Nat
      /\ r[Len(q) + 1] = e
      /\ \A i \in 1..Len(q) : r[i] = q[i]
  OBVIOUS
<1>2. DOMAIN r = 1..(Len(q) + 1) /\ DOMAIN q = 1..Len(q)
  BY <1>1
<1> HIDE DEF r
<1>3. IsInjective(r)
  BY <1>1, <1>2 DEF IsInjective, Contains
<1>4. ASSUME NEW j
      PROVE  Contains(r, j) <=> Contains(q, j) \/ j = e
  <2>1. ASSUME Contains(r, j) PROVE Contains(q, j) \/ j = e
    <3>1. PICK i \in 1..(Len(q) + 1) : r[i] = j
      BY <1>1, <2>1 DEF Contains
    <3>2. i = Len(q) + 1 \/ i \in 1..Len(q)
      BY <1>1
    <3> QED BY <1>1, <3>1, <3>2 DEF Contains
  <2>2. ASSUME Contains(q, j) PROVE Contains(r, j)
    <3>1. PICK i \in 1..Len(q) : q[i] = j
      BY <2>2 DEF Contains
    <3>2. i \in 1..Len(r) /\ r[i] = j
      BY <1>1, <3>1
    <3> QED BY <3>2 DEF Contains
  <2>3. Contains(r, e)
    <3>1. Len(q) + 1 \in 1..Len(r)
      BY <1>1
    <3> QED BY <1>1, <3>1 DEF Contains
  <2> QED BY <2>1, <2>2, <2>3
<1> QED BY <1>1, <1>3, <1>4 DEF r

\* r is the sequence q without its place p.
Without(q, p, r) ==
  /\ q \in Seq(Links) /\ p \in DOMAIN q
  /\ r \in Seq(Links) /\ Len(r) = Len(q) - 1
  /\ \A i \in 1..Len(r) : r[i] = IF i < p THEN q[i] ELSE q[i + 1]

LEMMA ShorterFacts ==
  ASSUME NEW q, NEW r, NEW p, IsInjective(q), Without(q, p, r)
  PROVE  /\ IsInjective(r)
         /\ \A j : Contains(r, j) <=> Contains(q, j) /\ j # q[p]
<1>1. /\ Len(q) \in Nat /\ p \in 1..Len(q)
      /\ DOMAIN q = 1..Len(q) /\ DOMAIN r = 1..Len(r)
      /\ q \in Seq(Links) /\ r \in Seq(Links) /\ Len(r) = Len(q) - 1
      /\ \A i \in 1..Len(r) : r[i] = IF i < p THEN q[i] ELSE q[i + 1]
  BY DEF Without
<1>2. \A i, k \in 1..Len(r) : r[i] = r[k] => i = k
  <2> SUFFICES ASSUME NEW i \in 1..Len(r), NEW k \in 1..Len(r), r[i] = r[k]
               PROVE  i = k
    OBVIOUS
  <2> DEFINE a == IF i < p THEN i ELSE i + 1
             b == IF k < p THEN k ELSE k + 1
  <2>1. a \in DOMAIN q /\ b \in DOMAIN q
    BY <1>1
  <2>2. q[a] = q[b]
    BY <1>1
  <2>3. a = b
    BY <2>1, <2>2 DEF IsInjective
  <2> QED BY <1>1, <2>3
<1>3. ASSUME NEW j, Contains(r, j) PROVE Contains(q, j) /\ j # q[p]
  <2>1. PICK i \in 1..Len(r) : r[i] = j
    BY <1>3 DEF Contains
  <2> DEFINE a == IF i < p THEN i ELSE i + 1
  <2>2. a \in 1..Len(q) /\ a # p /\ q[a] = j
    BY <1>1, <2>1
  <2> QED BY <1>1, <2>2 DEF Contains, IsInjective
<1>4. ASSUME NEW j, Contains(q, j), j # q[p] PROVE Contains(r, j)
  <2>1. PICK i \in 1..Len(q) : q[i] = j
    BY <1>4 DEF Contains
  <2> DEFINE a == IF i < p THEN i ELSE i - 1
  <2>2. i # p
    BY <1>4, <2>1
  <2>3. a \in 1..Len(r)
    BY <1>1, <2>2
  <2>4. r[a] = j
    BY <1>1, <2>1, <2>2, <2>3
  <2> QED BY <2>3, <2>4 DEF Contains
<1> QED BY <1>1, <1>2, <1>3, <1>4 DEF IsInjective

LEMMA TailFacts ==
  ASSUME NEW q, q \in Seq(Links), q # <<>>, IsInjective(q)
  PROVE  /\ Tail(q) \in Seq(Links)
         /\ IsInjective(Tail(q))
         /\ Head(q) \in Links /\ Contains(q, Head(q))
         /\ \A j : Contains(Tail(q), j) <=> Contains(q, j) /\ j # Head(q)
<1>1. /\ Len(q) \in Nat \ {0} /\ 1 \in DOMAIN q /\ Head(q) = q[1] /\ Head(q) \in Links
      /\ Tail(q) \in Seq(Links) /\ Len(Tail(q)) = Len(q) - 1
      /\ \A i \in 1..Len(Tail(q)) : Tail(q)[i] = q[i + 1]
  BY HeadTailProperties, EmptySeq
<1>2. \A i \in 1..Len(Tail(q)) : Tail(q)[i] = IF i < 1 THEN q[i] ELSE q[i + 1]
  BY <1>1
<1>3. Contains(q, Head(q))
  BY <1>1 DEF Contains
<1>4. Without(q, 1, Tail(q))
  BY <1>1, <1>2 DEF Without
<1>5. /\ IsInjective(Tail(q))
      /\ \A j : Contains(Tail(q), j) <=> Contains(q, j) /\ j # q[1]
  BY <1>4, ShorterFacts
<1> QED BY <1>1, <1>3, <1>5

LEMMA RemoveFacts ==
  ASSUME NEW q, NEW e \in Links, q \in Seq(Links), IsInjective(q), Contains(q, e)
  PROVE  /\ RemoveAt(q, Place(q, e)) \in Seq(Links)
         /\ IsInjective(RemoveAt(q, Place(q, e)))
         /\ \A j : Contains(RemoveAt(q, Place(q, e)), j) <=> Contains(q, j) /\ j # e
<1> DEFINE p == Place(q, e)
           a == SubSeq(q, 1, p - 1)
           b == SubSeq(q, p + 1, Len(q))
           r == a \o b
<1>1. p \in 1..Len(q) /\ q[p] = e /\ Len(q) \in Nat
  BY PlaceFacts
<1> HIDE DEF p
<1>2. /\ a \in Seq(Links) /\ Len(a) = p - 1
      /\ \A i \in 1..(p - 1) : a[i] = q[i]
  BY <1>1
<1>3. /\ b \in Seq(Links) /\ Len(b) = Len(q) - p
      /\ \A i \in 1..(Len(q) - p) : b[i] = q[p + i]
  BY <1>1
<1> HIDE DEF a, b
<1>4. /\ r \in Seq(Links) /\ Len(r) = Len(q) - 1
      /\ \A i \in 1..Len(r) : r[i] = IF i <= p - 1 THEN a[i] ELSE b[i - (p - 1)]
  <2>1. /\ a \o b \in Seq(Links) /\ Len(a \o b) = Len(a) + Len(b)
        /\ \A i \in 1..(Len(a) + Len(b)) :
             (a \o b)[i] = IF i <= Len(a) THEN a[i] ELSE b[i - Len(a)]
    BY <1>2, <1>3, ConcatProperties
  <2>2. Len(a) + Len(b) = Len(q) - 1
    BY <1>1, <1>2, <1>3
  <2> QED BY <1>2, <2>1, <2>2
<1>5. \A i \in 1..Len(r) : r[i] = IF i < p THEN q[i] ELSE q[i + 1]
  <2> SUFFICES ASSUME NEW i \in 1..Len(r) PROVE r[i] = IF i < p THEN q[i] ELSE q[i + 1]
    OBVIOUS
  <2>1. CASE i < p
    BY <1>1, <1>2, <1>4, <2>1
  <2>2. CASE ~(i < p)
    <3>1. i - (p - 1) \in 1..(Len(q) - p) /\ p + (i - (p - 1)) = i + 1
      BY <1>1, <1>4, <2>2
    <3> QED BY <1>1, <1>3, <1>4, <2>2, <3>1
  <2> QED BY <2>1, <2>2
<1>6. RemoveAt(q, p) = r
  BY DEF RemoveAt, a, b
<1> HIDE DEF r
<1>7. Without(q, p, r)
  <2>1. p \in DOMAIN q
    BY <1>1
  <2>2. r \in Seq(Links) /\ Len(r) = Len(q) - 1
    BY <1>4
  <2> QED BY <2>1, <2>2, <1>5, Zenon DEF Without
<1>8. IsInjective(r) /\ \A j : Contains(r, j) <=> Contains(q, j) /\ j # q[p]
  BY <1>7, ShorterFacts
<1> QED BY <1>1, <1>4, <1>6, <1>8 DEF p

(***************************************************************************)
(* The inductive invariant.                                                *)
(***************************************************************************)

RecType   == [status : {"absent", "queued", "running", "done", "error", "cancelled"},
              cancel : BOOLEAN, position : Nat]
WorkType  == [at : Busy \cup {"none", "waiting", "pooled", "over", "done"},
              tries : Nat, found : BOOLEAN]
OrderType == [status : Settled \cup {"none", "waiting_callback", "paying", "expired"},
              busy : BOOLEAN, calls : Nat]

StoreTyped ==
  /\ rec \in [Links -> RecType]
  /\ work \in [Links -> WorkType]
  /\ order \in [Links -> OrderType]
  /\ queue \in Seq(Links) /\ IsInjective(queue)

\* The queue holds the jobs that wait, and those only.
QueueInv == \A j \in Links : Contains(queue, j) <=> WorkAt(j, "waiting")

\* The lock of a token text has one holder.
LockInv ==
  \A j, k \in Links : j # k /\ TextOf[j] = TextOf[k] =>
    ~(work[j].at \in Busy /\ work[k].at \in Busy)

\* A job that was not created has no record.
FreshInv == \A j \in Links : WorkAt(j, "none") => ~Stored(j)

\* A record that a cancel did not write says cancelled only when the thread
\* writes no more.
CancelInv ==
  \A j \in Links : rec[j].status = "cancelled" =>
    rec[j].cancel \/ work[j].at \in {"deciding", "unlocking", "over", "done"}

\* While its record is there, a job that found a link is on its way out.
FoundInv ==
  \A j \in Links : work[j].found =>
    /\ work[j].at \in Busy \cup {"over", "done"}
    /\ work[j].at \in {"loop", "trying"} => ~Stored(j)
    /\ WorkAt(j, "deciding") /\ Stored(j) => rec[j].status \in {"done", "cancelled"}

\* A callback that is handled is alone, and its order is open.
OrderInv ==
  \A j \in Links : order[j].calls > 0 =>
    order[j].busy /\ order[j].calls = 1 /\ order[j].status \notin Settled

\* A job without a record has no position that could come back with it.
AbsentInv == \A j \in Links : ~Stored(j) => rec[j].position = 0

LinksInv ==
  StoreTyped /\ QueueInv /\ LockInv /\ FreshInv /\ CancelInv /\ FoundInv /\ OrderInv

-----------------------------------------------------------------------------
(* What the helpers of the actions do. *)

\* Update changes the status of one record that is there, and no cancelled one.
LEMMA UpdateFacts ==
  ASSUME StoreTyped, NEW j \in Links, NEW s \in {"running", "done", "error", "cancelled"}
  PROVE  /\ Update(j, s) \in [Links -> RecType]
         /\ \A k \in Links : k # j => Update(j, s)[k] = rec[k]
         /\ Update(j, s)[j].cancel = rec[j].cancel
         /\ Update(j, s)[j].position = rec[j].position
         /\ Update(j, s)[j].status =
              IF Stored(j) /\ ~(rec[j].cancel /\ rec[j].status = "cancelled")
                THEN s ELSE rec[j].status
<1> DEFINE r == [rec EXCEPT ![j].status = s]
<1>1. CASE Stored(j) /\ ~(rec[j].cancel /\ rec[j].status = "cancelled")
  <2>1. Update(j, s) = r
    BY <1>1 DEF Update
  <2>2. /\ r \in [Links -> RecType] /\ \A k \in Links : k # j => r[k] = rec[k]
        /\ r[j].cancel = rec[j].cancel /\ r[j].position = rec[j].position
        /\ r[j].status = s
    BY DEF StoreTyped, RecType
  <2> QED BY <1>1, <2>1, <2>2
<1>2. CASE ~(Stored(j) /\ ~(rec[j].cancel /\ rec[j].status = "cancelled"))
  <2>1. Update(j, s) = rec
    BY <1>2 DEF Update
  <2> QED BY <1>2, <2>1 DEF StoreTyped
<1> QED BY <1>1, <1>2

\* Positioned changes positions only, and gives those in the queue theirs.
LEMMA PositionedFacts ==
  ASSUME NEW r \in [Links -> RecType], NEW q, q \in Seq(Links)
  PROVE  /\ Positioned(r, q) \in [Links -> RecType]
         /\ \A j \in Links :
              /\ Positioned(r, q)[j].status = r[j].status
              /\ Positioned(r, q)[j].cancel = r[j].cancel
              /\ IF r[j].status # "absent" /\ Contains(q, j)
                   THEN /\ Positioned(r, q)[j].position \in DOMAIN q
                        /\ Positioned(r, q)[j].position # 0
                        /\ q[Positioned(r, q)[j].position] = j
                   ELSE Positioned(r, q)[j].position = r[j].position
<1> DEFINE P == Positioned(r, q)
<1>1. ASSUME NEW j \in Links, r[j].status # "absent", Contains(q, j)
      PROVE  /\ P[j] \in RecType /\ P[j].status = r[j].status
             /\ P[j].cancel = r[j].cancel
             /\ P[j].position \in DOMAIN q /\ P[j].position # 0
             /\ q[P[j].position] = j
  <2>1. Place(q, j) \in DOMAIN q /\ q[Place(q, j)] = j
    BY <1>1, PlaceFacts
  <2>2. DOMAIN q = 1..Len(q) /\ Len(q) \in Nat
    OBVIOUS
  <2> HIDE DEF P
  <2>3. Place(q, j) \in Nat \ {0}
    BY <2>1, <2>2
  <2>4. P[j] = [r[j] EXCEPT !.position = Place(q, j)]
    BY <1>1 DEF P, Positioned
  <2>5. r[j] \in RecType
    OBVIOUS
  <2>6. P[j] = [status |-> r[j].status, cancel |-> r[j].cancel, position |-> Place(q, j)]
    BY <2>4, <2>5 DEF RecType
  <2> QED BY <2>1, <2>3, <2>5, <2>6 DEF RecType
<1>2. ASSUME NEW j \in Links, ~(r[j].status # "absent" /\ Contains(q, j))
      PROVE  P[j] = r[j] /\ P[j] \in RecType
  <2>1. P[j] = r[j]
    BY <1>2 DEF Positioned
  <2> QED BY <2>1
<1>3. P = [j \in Links |-> P[j]]
  BY DEF Positioned
<1> HIDE DEF P
<1>4. ASSUME NEW j \in Links PROVE P[j] \in RecType
  BY <1>1, <1>2
<1>5. P \in [Links -> RecType]
  BY <1>3, <1>4
<1>6. ASSUME NEW j \in Links
      PROVE  /\ P[j].status = r[j].status /\ P[j].cancel = r[j].cancel
             /\ IF r[j].status # "absent" /\ Contains(q, j)
                  THEN P[j].position \in DOMAIN q /\ P[j].position # 0 /\ q[P[j].position] = j
                  ELSE P[j].position = r[j].position
  BY <1>1, <1>2
<1> QED BY <1>5, <1>6 DEF P

-----------------------------------------------------------------------------
(* The steps of a job's thread. *)

\* A step of j's thread touches nothing of other jobs, and of j's record only
\* the status.
ThreadFrame(j) ==
  /\ queue' = queue
  /\ rec' \in [Links -> RecType]
  /\ work' \in [Links -> WorkType]
  /\ order' \in [Links -> OrderType]
  /\ \A k \in Links : k # j => rec'[k] = rec[k] /\ work'[k] = work[k]
  /\ rec'[j].cancel = rec[j].cancel /\ rec'[j].position = rec[j].position
  /\ rec'[j].status = "absent" <=> rec[j].status = "absent"
  /\ rec[j].status = "cancelled" => rec'[j].status = "cancelled"
  /\ work[j].at \notin {"none", "waiting"} /\ work'[j].at \notin {"none", "waiting"}
  /\ \A k \in Links :
       /\ order'[k].calls = order[k].calls /\ order'[k].busy = order[k].busy
       /\ \/ order'[k].status = order[k].status
          \/ order[k].status = "none" /\ order'[k].status = "waiting_callback"

\* It takes the lock only from nobody, and keeps what the invariant says of j.
ThreadKeeps(j) ==
  /\ \/ work[j].at \in Busy \/ work'[j].at \notin Busy
     \/ \A k \in Links : TextOf[k] = TextOf[j] => work[k].at \notin Busy
  /\ rec'[j].status = "cancelled" =>
       rec'[j].cancel \/ work'[j].at \in {"deciding", "unlocking", "over", "done"}
  /\ work'[j].found =>
       /\ work'[j].at \in Busy \cup {"over", "done"}
       /\ work'[j].at \in {"loop", "trying"} => rec'[j].status = "absent"
       /\ work'[j].at = "deciding" /\ rec'[j].status # "absent" =>
            rec'[j].status \in {"done", "cancelled"}
  /\ work[j].found /\ work'[j].tries > work[j].tries => rec[j].status = "absent"

Spots == Busy \cup {"none", "waiting", "pooled", "over", "done"}

\* j's thread, and no other, goes to s with n attempts and the link f.
ThreadMoves(j, s, n, f) ==
  /\ work' \in [Links -> WorkType]
  /\ \A k \in Links : k # j => work'[k] = work[k]
  /\ work'[j].at = s /\ work'[j].tries = n /\ work'[j].found = f

LEMMA GoesMoves ==
  ASSUME StoreTyped, NEW j \in Links, NEW s \in Spots, WorkGoes(j, s)
  PROVE  ThreadMoves(j, s, work[j].tries, work[j].found)
<1>1. work' = [work EXCEPT ![j].at = s]
  BY DEF WorkGoes
<1>2. work \in [Links -> WorkType] /\ s \in Spots
  BY DEF StoreTyped
<1> QED BY <1>1, <1>2 DEF ThreadMoves, WorkType, Spots

LEMMA SpendsMoves ==
  ASSUME StoreTyped, NEW j \in Links, NEW s \in Spots,
         work' = [work EXCEPT ![j].at = s, ![j].tries = @ + 1]
  PROVE  ThreadMoves(j, s, work[j].tries + 1, work[j].found)
<1>2. work \in [Links -> WorkType] /\ s \in Spots
  BY DEF StoreTyped
<1> QED BY <1>2 DEF ThreadMoves, WorkType, Spots

LEMMA FindsMoves ==
  ASSUME StoreTyped, NEW j \in Links, NEW s \in Spots,
         work' = [work EXCEPT ![j].at = s, ![j].found = TRUE]
  PROVE  ThreadMoves(j, s, work[j].tries, TRUE)
<1>2. work \in [Links -> WorkType] /\ s \in Spots
  BY DEF StoreTyped
<1> QED BY <1>2 DEF ThreadMoves, WorkType, Spots


\* What a step of a thread writes in its record: nothing, or a status.
Writes(j, S) == rec' = rec \/ \E status \in S : rec' = Update(j, status)

LEMMA WritesFacts ==
  ASSUME StoreTyped, NEW j \in Links,
         NEW S \in SUBSET {"running", "done", "error", "cancelled"}, Writes(j, S),
         rec[j].status = "cancelled" => rec[j].cancel \/ S \subseteq {"cancelled"}
  PROVE  /\ rec' \in [Links -> RecType]
         /\ \A k \in Links : k # j => rec'[k] = rec[k]
         /\ rec'[j].cancel = rec[j].cancel /\ rec'[j].position = rec[j].position
         /\ rec'[j].status = "absent" <=> rec[j].status = "absent"
         /\ rec[j].status = "cancelled" => rec'[j].status = "cancelled"
         /\ rec'[j].status = rec[j].status \/ rec'[j].status \in S
<1>1. CASE rec' = rec
  BY <1>1 DEF StoreTyped
<1>2. CASE \E status \in S : rec' = Update(j, status)
  <2>1. PICK status \in S : rec' = Update(j, status)
    BY <1>2
  <2>2. status \in {"running", "done", "error", "cancelled"}
    OBVIOUS
  <2>3. /\ rec' \in [Links -> RecType]
        /\ \A k \in Links : k # j => rec'[k] = rec[k]
        /\ rec'[j].cancel = rec[j].cancel /\ rec'[j].position = rec[j].position
        /\ rec'[j].status =
              IF Stored(j) /\ ~(rec[j].cancel /\ rec[j].status = "cancelled")
                THEN status ELSE rec[j].status
    BY <2>1, <2>2, UpdateFacts
  <2>4. rec[j].status = "cancelled" => rec'[j].status = "cancelled"
    BY <2>3
  <2> QED BY <2>2, <2>3, <2>4 DEF Stored
<1> QED BY <1>1, <1>2 DEF Writes

LEMMA FrameFacts ==
  ASSUME StoreTyped, NEW j \in Links,
         NEW S \in SUBSET {"running", "done", "error", "cancelled"}, Writes(j, S),
         NEW s, NEW n, NEW f, ThreadMoves(j, s, n, f),
         rec[j].status = "cancelled" => rec[j].cancel \/ S \subseteq {"cancelled"},
         queue' = queue,
         work[j].at \notin {"none", "waiting"}, s \notin {"none", "waiting"}
  PROVE  order' = order => ThreadFrame(j)
<1>1. /\ rec' \in [Links -> RecType]
      /\ \A k \in Links : k # j => rec'[k] = rec[k]
      /\ rec'[j].cancel = rec[j].cancel /\ rec'[j].position = rec[j].position
      /\ rec'[j].status = "absent" <=> rec[j].status = "absent"
      /\ rec[j].status = "cancelled" => rec'[j].status = "cancelled"
  BY WritesFacts
<1>2. /\ work' \in [Links -> WorkType]
      /\ \A k \in Links : k # j => work'[k] = work[k]
      /\ work'[j].at = s
  BY DEF ThreadMoves
<1>3. order \in [Links -> OrderType]
  BY DEF StoreTyped
<1> QED BY <1>1, <1>2, <1>3 DEF ThreadFrame

LEMMA TakesTokenLockKeeps ==
  ASSUME LinksInv, NEW j \in Links, TakesTokenLock(j)
  PROVE  ThreadFrame(j) /\ ThreadKeeps(j)
<1>1. StoreTyped /\ WorkAt(j, "pooled") /\ queue' = queue /\ order' = order
  BY DEF LinksInv, TakesTokenLock
<1>2. work[j].found = FALSE /\ work[j].tries \in Nat
  BY <1>1 DEF LinksInv, FoundInv, WorkAt, StoreTyped, WorkType, Busy
<1>3. rec[j].status = "cancelled" => rec[j].cancel
  BY <1>1 DEF LinksInv, CancelInv, WorkAt
<1>4. CASE \E k \in Links : TextOf[k] = TextOf[j] /\ work[k].at \in Busy
  <2>1. rec' = Update(j, "error") /\ WorkGoes(j, "over")
    BY <1>4 DEF TakesTokenLock
  <2>2. ThreadMoves(j, "over", work[j].tries, work[j].found)
    BY <1>1, <2>1, GoesMoves DEF Spots
  <2>3. Writes(j, {"error"})
    BY <2>1 DEF Writes
  <2>4. ThreadFrame(j)
    BY <1>1, <1>3, <2>2, <2>3, FrameFacts DEF WorkAt
  <2>5. work'[j].at = "over" /\ ~work'[j].found /\ work'[j].tries = work[j].tries
    BY <1>2, <2>2 DEF ThreadMoves
  <2> QED BY <1>2, <2>4, <2>5 DEF ThreadKeeps, Busy
<1>5. CASE ~\E k \in Links : TextOf[k] = TextOf[j] /\ work[k].at \in Busy
  <2>1. rec' = rec /\ WorkGoes(j, "loop")
    BY <1>5 DEF TakesTokenLock
  <2>2. ThreadMoves(j, "loop", work[j].tries, work[j].found)
    BY <1>1, <2>1, GoesMoves DEF Spots, Busy
  <2>3. Writes(j, {})
    BY <2>1 DEF Writes
  <2>4. ThreadFrame(j)
    BY <1>1, <1>3, <2>2, <2>3, FrameFacts DEF WorkAt
  <2>5. work'[j].at = "loop" /\ ~work'[j].found
    BY <1>2, <2>2 DEF ThreadMoves
  <2> QED BY <1>2, <1>3, <1>5, <2>1, <2>4, <2>5 DEF ThreadKeeps, ThreadFrame
<1> QED BY <1>4, <1>5

LEMMA BeginsTryKeeps ==
  ASSUME LinksInv, NEW j \in Links, BeginsTry(j)
  PROVE  ThreadFrame(j) /\ ThreadKeeps(j)
<1>1. StoreTyped /\ WorkAt(j, "loop") /\ queue' = queue /\ order' = order
  BY DEF LinksInv, BeginsTry
<1>2. /\ work[j].found => ~Stored(j)
      /\ rec[j].status = "cancelled" => rec[j].cancel
      /\ work[j].tries \in Nat
  BY <1>1 DEF LinksInv, FoundInv, CancelInv, WorkAt, StoreTyped, WorkType
<1>3. CASE rec[j].cancel
  <2>1. rec' = rec /\ WorkGoes(j, "unlocking")
    BY <1>3 DEF BeginsTry
  <2>2. ThreadMoves(j, "unlocking", work[j].tries, work[j].found)
    BY <1>1, <2>1, GoesMoves DEF Spots, Busy
  <2>3. Writes(j, {})
    BY <2>1 DEF Writes
  <2>4. ThreadFrame(j)
    BY <1>1, <1>2, <2>2, <2>3, FrameFacts DEF WorkAt
  <2>5. work'[j].at = "unlocking" /\ work'[j].tries = work[j].tries
    BY <2>2 DEF ThreadMoves
  <2> QED BY <1>1, <1>2, <2>4, <2>5 DEF ThreadKeeps, Busy, WorkAt, Stored
<1>4. CASE ~rec[j].cancel
  <2>1. PICK s \in {"trying", "loop", "unlocking"}, status \in {"running", "error"} :
          /\ rec' = Update(j, status)
          /\ work' = [work EXCEPT ![j].at = s, ![j].tries = @ + 1]
    BY <1>4 DEF BeginsTry
  <2>2. s \in Spots /\ s \in Busy
    BY DEF Spots, Busy
  <2>3. ThreadMoves(j, s, work[j].tries + 1, work[j].found)
    BY <1>1, <2>1, <2>2, SpendsMoves
  <2>4. Writes(j, {"running", "error"})
    BY <2>1 DEF Writes
  <2>5. ThreadFrame(j)
    BY <1>1, <1>2, <2>3, <2>4, FrameFacts DEF WorkAt
  <2>6. work'[j].at = s /\ work'[j].found = work[j].found
    BY <2>3 DEF ThreadMoves
  <2>7. rec'[j].status # "cancelled" /\ (work[j].found => rec'[j].status = "absent")
    BY <1>1, <1>2, <1>4, <2>1, UpdateFacts DEF Stored
  <2> QED BY <1>1, <1>2, <2>2, <2>5, <2>6, <2>7 DEF ThreadKeeps, WorkAt, Stored, Busy
<1> QED BY <1>3, <1>4

LEMMA TryFailsKeeps ==
  ASSUME LinksInv, NEW j \in Links, TryFails(j)
  PROVE  ThreadFrame(j) /\ ThreadKeeps(j)
<1>1. StoreTyped /\ WorkAt(j, "trying") /\ queue' = queue /\ order' = order
  BY DEF LinksInv, TryFails
<1>2. /\ work[j].found => ~Stored(j)
      /\ rec[j].status = "cancelled" => rec[j].cancel
      /\ work[j].tries \in Nat
  BY <1>1 DEF LinksInv, FoundInv, CancelInv, WorkAt, StoreTyped, WorkType
<1>3. Writes(j, {"running", "cancelled"}) /\ WorkGoes(j, "deciding")
  BY DEF TryFails, Writes
<1>4. ThreadMoves(j, "deciding", work[j].tries, work[j].found)
  BY <1>1, <1>3, GoesMoves DEF Spots, Busy
<1>5. ThreadFrame(j)
  BY <1>1, <1>2, <1>3, <1>4, FrameFacts DEF WorkAt
<1>6. /\ work'[j].at = "deciding" /\ work'[j].tries = work[j].tries
      /\ work'[j].found = work[j].found
  BY <1>4 DEF ThreadMoves
<1> QED BY <1>1, <1>2, <1>5, <1>6 DEF ThreadKeeps, ThreadFrame, WorkAt, Stored, Busy

LEMMA TryFindsKeeps ==
  ASSUME LinksInv, NEW j \in Links, TryFinds(j)
  PROVE  ThreadFrame(j) /\ ThreadKeeps(j)
<1>1. StoreTyped /\ WorkAt(j, "trying") /\ queue' = queue
  BY DEF LinksInv, TryFinds
<1>2. /\ rec[j].status = "cancelled" => rec[j].cancel
      /\ work[j].tries \in Nat
  BY <1>1 DEF LinksInv, CancelInv, WorkAt, StoreTyped, WorkType
<1>3. rec' = Update(j, "done")
  BY DEF TryFinds
<1>4. ThreadMoves(j, "deciding", work[j].tries, TRUE)
  BY <1>1, FindsMoves DEF TryFinds, Spots, Busy
<1>5. /\ work' \in [Links -> WorkType]
      /\ \A k \in Links : k # j => work'[k] = work[k]
      /\ work'[j].at = "deciding" /\ work'[j].tries = work[j].tries
  BY <1>4 DEF ThreadMoves
<1>6. Writes(j, {"done"})
  BY <1>3 DEF Writes
<1>7. /\ rec' \in [Links -> RecType]
      /\ \A k \in Links : k # j => rec'[k] = rec[k]
      /\ rec'[j].cancel = rec[j].cancel /\ rec'[j].position = rec[j].position
      /\ rec'[j].status = "absent" <=> rec[j].status = "absent"
      /\ rec[j].status = "cancelled" => rec'[j].status = "cancelled"
  BY <1>1, <1>2, <1>6, WritesFacts
<1>8. rec'[j].status # "absent" => rec'[j].status \in {"done", "cancelled"}
  BY <1>1, <1>3, UpdateFacts DEF Stored
<1>9. /\ order' \in [Links -> OrderType]
      /\ \A k \in Links :
           /\ order'[k].calls = order[k].calls /\ order'[k].busy = order[k].busy
           /\ \/ order'[k].status = order[k].status
              \/ order[k].status = "none" /\ order'[k].status = "waiting_callback"
  <2>1. order \in [Links -> OrderType]
    BY <1>1 DEF StoreTyped
  <2>2. CASE order' = order
    BY <2>1, <2>2
  <2>3. CASE order' = [order EXCEPT ![j].status = "waiting_callback"] /\ order[j].status = "none"
    BY <2>1, <2>3 DEF OrderType
  <2> QED BY <2>2, <2>3 DEF TryFinds
<1>10. ThreadFrame(j)
  BY <1>1, <1>5, <1>7, <1>9 DEF ThreadFrame, WorkAt
<1> QED BY <1>1, <1>2, <1>5, <1>8, <1>10 DEF ThreadKeeps, WorkAt, Busy

LEMMA DecidesKeeps ==
  ASSUME LinksInv, NEW j \in Links, Decides(j)
  PROVE  ThreadFrame(j) /\ ThreadKeeps(j)
<1>1. StoreTyped /\ WorkAt(j, "deciding") /\ queue' = queue /\ order' = order
  BY DEF LinksInv, Decides
<1>2. /\ work[j].found => ~Stored(j) \/ rec[j].status \in {"done", "cancelled"}
      /\ work[j].tries \in Nat
  BY <1>1 DEF LinksInv, FoundInv, WorkAt, StoreTyped, WorkType
<1>3. CASE rec' = rec /\ WorkGoes(j, "unlocking")
  <2>1. ThreadMoves(j, "unlocking", work[j].tries, work[j].found)
    BY <1>1, <1>3, GoesMoves DEF Spots, Busy
  <2>2. Writes(j, {})
    BY <1>3 DEF Writes
  <2>3. ThreadFrame(j)
    BY <1>1, <2>1, <2>2, FrameFacts DEF WorkAt
  <2>4. work'[j].at = "unlocking" /\ work'[j].tries = work[j].tries
    BY <2>1 DEF ThreadMoves
  <2> QED BY <1>1, <1>2, <2>3, <2>4 DEF ThreadKeeps, WorkAt, Busy
<1>4. ASSUME rec[j].status \notin {"done", "cancelled"},
             rec' = Update(j, "error") /\ WorkGoes(j, "unlocking")
      PROVE  ThreadFrame(j) /\ ThreadKeeps(j)
  <2>1. ThreadMoves(j, "unlocking", work[j].tries, work[j].found)
    BY <1>1, <1>4, GoesMoves DEF Spots, Busy
  <2>2. Writes(j, {"error"})
    BY <1>4 DEF Writes
  <2>3. ThreadFrame(j)
    BY <1>1, <1>4, <2>1, <2>2, FrameFacts DEF WorkAt
  <2>4. work'[j].at = "unlocking" /\ work'[j].tries = work[j].tries
    BY <2>1 DEF ThreadMoves
  <2> QED BY <1>1, <1>2, <2>3, <2>4 DEF ThreadKeeps, WorkAt, Busy
<1>5. ASSUME rec[j].status \notin {"done", "cancelled"},
             rec' = rec /\ WorkGoes(j, "loop")
      PROVE  ThreadFrame(j) /\ ThreadKeeps(j)
  <2>1. ThreadMoves(j, "loop", work[j].tries, work[j].found)
    BY <1>1, <1>5, GoesMoves DEF Spots, Busy
  <2>2. Writes(j, {})
    BY <1>5 DEF Writes
  <2>3. ThreadFrame(j)
    BY <1>1, <1>5, <2>1, <2>2, FrameFacts DEF WorkAt
  <2>4. /\ work'[j].at = "loop" /\ work'[j].tries = work[j].tries
        /\ work'[j].found = work[j].found
    BY <2>1 DEF ThreadMoves
  <2> QED BY <1>1, <1>2, <1>5, <2>3, <2>4 DEF ThreadKeeps, WorkAt, Busy, Stored
<1>6. ASSUME rec[j].status \notin {"done", "cancelled"}, Stored(j),
             rec' = Update(j, "running"),
             work' = [work EXCEPT ![j].at = "trying", ![j].tries = @ + 1]
      PROVE  ThreadFrame(j) /\ ThreadKeeps(j)
  <2>1. ThreadMoves(j, "trying", work[j].tries + 1, work[j].found)
    BY <1>1, <1>6, SpendsMoves DEF Spots, Busy
  <2>2. Writes(j, {"running"})
    BY <1>6 DEF Writes
  <2>3. ThreadFrame(j)
    BY <1>1, <1>6, <2>1, <2>2, FrameFacts DEF WorkAt
  <2>4. work'[j].at = "trying" /\ work'[j].found = work[j].found
    BY <2>1 DEF ThreadMoves
  <2>5. rec'[j].status = "running"
    BY <1>1, <1>6, UpdateFacts
  <2>6. ~work[j].found
    BY <1>2, <1>6
  <2> QED BY <1>1, <1>6, <2>3, <2>4, <2>5, <2>6 DEF ThreadKeeps, WorkAt, Busy
<1> QED
  <2>1. CASE rec[j].status \in {"done", "cancelled"}
    BY <1>3, <2>1 DEF Decides
  <2>2. CASE rec[j].status \notin {"done", "cancelled"}
    BY <1>4, <1>5, <1>6, <2>2 DEF Decides
  <2> QED BY <2>1, <2>2

LEMMA UnlocksKeeps ==
  ASSUME LinksInv, NEW j \in Links, Unlocks(j)
  PROVE  ThreadFrame(j) /\ ThreadKeeps(j)
<1>1. /\ StoreTyped /\ WorkAt(j, "unlocking") /\ queue' = queue /\ order' = order
      /\ rec' = rec /\ WorkGoes(j, "over")
  BY DEF LinksInv, Unlocks
<1>2. ThreadMoves(j, "over", work[j].tries, work[j].found) /\ work[j].tries \in Nat
  BY <1>1, GoesMoves DEF Spots, StoreTyped, WorkType
<1>3. Writes(j, {})
  BY <1>1 DEF Writes
<1>4. ThreadFrame(j)
  BY <1>1, <1>2, <1>3, FrameFacts DEF WorkAt
<1>5. work'[j].at = "over" /\ work'[j].tries = work[j].tries
  BY <1>2 DEF ThreadMoves
<1> QED BY <1>1, <1>2, <1>4, <1>5 DEF ThreadKeeps, WorkAt, Busy

LEMMA WorkerDoneKeeps ==
  ASSUME LinksInv, NEW j \in Links, WorkerDone(j)
  PROVE  ThreadFrame(j) /\ ThreadKeeps(j)
<1>1. /\ StoreTyped /\ WorkAt(j, "over") /\ queue' = queue /\ order' = order
      /\ rec' = rec /\ WorkGoes(j, "done")
  BY DEF LinksInv, WorkerDone
<1>2. ThreadMoves(j, "done", work[j].tries, work[j].found) /\ work[j].tries \in Nat
  BY <1>1, GoesMoves DEF Spots, StoreTyped, WorkType
<1>3. Writes(j, {})
  BY <1>1 DEF Writes
<1>4. ThreadFrame(j)
  BY <1>1, <1>2, <1>3, FrameFacts DEF WorkAt
<1>5. work'[j].at = "done" /\ work'[j].tries = work[j].tries
  BY <1>2 DEF ThreadMoves
<1> QED BY <1>1, <1>2, <1>4, <1>5 DEF ThreadKeeps, WorkAt, Busy

\* Any step of a thread keeps the invariant and the agreement on the queue.
LEMMA ThreadInvariant ==
  ASSUME LinksInv, NEW j \in Links, ThreadFrame(j), ThreadKeeps(j)
  PROVE  LinksInv' /\ (QueueAgrees => QueueAgrees')
<1>1. StoreTyped'
  BY DEF LinksInv, StoreTyped, ThreadFrame
<1>2. QueueInv'
  BY DEF LinksInv, QueueInv, WorkAt, ThreadFrame
<1>3. LockInv'
  BY DEF LinksInv, LockInv, ThreadFrame, ThreadKeeps
<1>4. FreshInv'
  BY DEF LinksInv, FreshInv, WorkAt, Stored, ThreadFrame
<1>5. CancelInv'
  BY DEF LinksInv, CancelInv, ThreadFrame, ThreadKeeps
<1>6. FoundInv'
  <2>1. ASSUME NEW k \in Links, k # j, work'[k].found
        PROVE  /\ work'[k].at \in Busy \cup {"over", "done"}
               /\ work'[k].at \in {"loop", "trying"} => rec'[k].status = "absent"
               /\ work'[k].at = "deciding" /\ rec'[k].status # "absent" =>
                    rec'[k].status \in {"done", "cancelled"}
    <3>1. work'[k] = work[k] /\ rec'[k] = rec[k]
      BY <2>1 DEF ThreadFrame
    <3> QED BY <2>1, <3>1 DEF LinksInv, FoundInv, WorkAt, Stored
  <2> QED BY <2>1 DEF FoundInv, ThreadKeeps, WorkAt, Stored
<1>7. OrderInv'
  <2> SUFFICES ASSUME NEW k \in Links, order'[k].calls > 0
               PROVE  /\ order'[k].busy /\ order'[k].calls = 1
                      /\ order'[k].status \notin Settled
    BY DEF OrderInv
  <2>1. /\ order'[k].calls = order[k].calls /\ order'[k].busy = order[k].busy
        /\ \/ order'[k].status = order[k].status
           \/ order[k].status = "none" /\ order'[k].status = "waiting_callback"
    BY DEF ThreadFrame
  <2>2. order[k].busy /\ order[k].calls = 1 /\ order[k].status \notin Settled
    BY <2>1 DEF LinksInv, OrderInv
  <2> QED BY <2>1, <2>2 DEF Settled
<1>8. ASSUME QueueAgrees PROVE QueueAgrees'
  <2>1. \A k \in Links : /\ rec'[k].position = rec[k].position
                         /\ rec'[k].status = "absent" <=> rec[k].status = "absent"
    BY DEF ThreadFrame
  <2>2. queue' = queue
    BY DEF ThreadFrame
  <2> QED BY <1>8, <2>1, <2>2 DEF QueueAgrees, Stored
<1> QED BY <1>1, <1>2, <1>3, <1>4, <1>5, <1>6, <1>7, <1>8 DEF LinksInv

-----------------------------------------------------------------------------
(* The steps of the store. *)

\* What the store does to the records of jobs it does not start: it may forget
\* them or give them a position.
StoreFrame(J) ==
  /\ rec' \in [Links -> RecType]
  /\ work' \in [Links -> WorkType]
  /\ order' = order
  /\ queue' \in Seq(Links) /\ IsInjective(queue')
  /\ \A k \in Links \ J :
       /\ work'[k] = work[k]
       /\ \/ rec'[k].status = "absent"
          \/ rec'[k].status = rec[k].status /\ rec'[k].cancel = rec[k].cancel
       /\ Contains(queue', k) <=> Contains(queue, k)
  /\ \A k \in J :
       /\ work'[k].at \notin Busy /\ work'[k].at # "none" /\ ~work'[k].found
       /\ Contains(queue', k) <=> work'[k].at = "waiting"
       /\ rec'[k].status = "cancelled" => rec'[k].cancel

LEMMA StoreInvariant ==
  ASSUME LinksInv, NEW J \in SUBSET Links, StoreFrame(J)
  PROVE  LinksInv'
<1>1. StoreTyped'
  BY DEF LinksInv, StoreTyped, StoreFrame
<1>2. QueueInv'
  BY DEF LinksInv, QueueInv, WorkAt, StoreFrame
<1>3. LockInv'
  BY DEF LinksInv, LockInv, StoreFrame
<1>4. FreshInv'
  BY DEF LinksInv, FreshInv, WorkAt, Stored, StoreFrame
<1>5. CancelInv'
  <2> SUFFICES ASSUME NEW k \in Links, rec'[k].status = "cancelled"
               PROVE  rec'[k].cancel \/ work'[k].at \in {"deciding", "unlocking", "over", "done"}
    BY DEF CancelInv
  <2>1. CASE k \in J
    BY <2>1 DEF StoreFrame
  <2>2. CASE k \notin J
    <3>1. /\ work'[k] = work[k]
          /\ rec'[k].status = rec[k].status /\ rec'[k].cancel = rec[k].cancel
      BY <2>2 DEF StoreFrame
    <3> QED BY <3>1 DEF LinksInv, CancelInv
  <2> QED BY <2>1, <2>2
<1>6. FoundInv'
  <2> SUFFICES ASSUME NEW k \in Links, work'[k].found
               PROVE  /\ work'[k].at \in Busy \cup {"over", "done"}
                      /\ work'[k].at \in {"loop", "trying"} => rec'[k].status = "absent"
                      /\ work'[k].at = "deciding" /\ rec'[k].status # "absent" =>
                           rec'[k].status \in {"done", "cancelled"}
    BY DEF FoundInv, WorkAt, Stored
  <2>1. k \notin J
    BY DEF StoreFrame
  <2>2. /\ work'[k] = work[k]
        /\ rec'[k].status = "absent" \/ rec'[k].status = rec[k].status
    BY <2>1 DEF StoreFrame
  <2> QED BY <2>2 DEF LinksInv, FoundInv, WorkAt, Stored
<1>7. OrderInv'
  BY DEF LinksInv, OrderInv, StoreFrame
<1> QED BY <1>1, <1>2, <1>3, <1>4, <1>5, <1>6, <1>7 DEF LinksInv

\* When the positions were just written, they agree with the queue.
LEMMA PositionsAgree ==
  ASSUME NEW r \in [Links -> RecType], rec' = Positioned(r, queue'), queue' \in Seq(Links),
         \A j \in Links : r[j].status # "absent" /\ ~Contains(queue', j) => r[j].position = 0
  PROVE  QueueAgrees'
<1> SUFFICES ASSUME NEW j \in Links, rec'[j].status # "absent"
             PROVE  IF rec'[j].position = 0 THEN ~Contains(queue', j)
                    ELSE /\ rec'[j].position \in DOMAIN queue'
                         /\ queue'[rec'[j].position] = j
  BY DEF QueueAgrees, Stored
<1>1. rec'[j].status = r[j].status
  BY PositionedFacts
<1>2. CASE Contains(queue', j)
  BY <1>1, <1>2, PositionedFacts
<1>3. CASE ~Contains(queue', j)
  BY <1>1, <1>3, PositionedFacts
<1> QED BY <1>2, <1>3

\* A record that has a position is in the queue.
LEMMA PositionZero ==
  ASSUME QueueAgrees, StoreTyped, NEW j \in Links, Stored(j), ~Contains(queue, j)
  PROVE  rec[j].position = 0
<1>1. CASE rec[j].position # 0
  <2>1. rec[j].position \in DOMAIN queue /\ queue[rec[j].position] = j
    BY <1>1 DEF QueueAgrees
  <2> QED BY <2>1 DEF Contains, StoreTyped
<1> QED BY <1>1

\* Nor have the others one.
LEMMA PositionsAbsent ==
  ASSUME NEW r \in [Links -> RecType], rec' = Positioned(r, queue'), queue' \in Seq(Links),
         \A j \in Links : r[j].status = "absent" => r[j].position = 0
  PROVE  AbsentInv'
<1> SUFFICES ASSUME NEW j \in Links, rec'[j].status = "absent"
             PROVE  rec'[j].position = 0
  BY DEF AbsentInv, Stored
<1> QED BY PositionedFacts

LEMMA CreatesKeeps ==
  ASSUME LinksAssumption, LinksInv, NEW j \in Links, CreatesLink(j)
  PROVE  /\ StoreFrame({j}) /\ rec[j].status = "absent"
         /\ QueueAgrees => QueueAgrees'
         /\ AbsentInv => AbsentInv'
<1>1. StoreTyped /\ WorkAt(j, "none") /\ order' = order
  BY DEF LinksInv, CreatesLink
<1>2. ~Stored(j) /\ ~work[j].found /\ work[j].tries \in Nat /\ ~Contains(queue, j)
  BY <1>1 DEF LinksInv, FreshInv, FoundInv, QueueInv, WorkAt, StoreTyped, WorkType, Busy
<1>3. PICK old \in SUBSET {k \in Links : Stored(k)} :
        /\ queue' = IF j \in Public THEN Append(queue, j) ELSE queue
        /\ rec' = Positioned([k \in Links |->
                    CASE k = j          -> NewRecord
                      [] k \in old      -> NoRecord
                      [] OTHER          -> rec[k]], queue')
  BY DEF CreatesLink
<1> DEFINE r == [k \in Links |->
                    CASE k = j          -> NewRecord
                      [] k \in old      -> NoRecord
                      [] OTHER          -> rec[k]]
<1>4. NewRecord \in RecType /\ NoRecord \in RecType
  BY DEF NewRecord, NoRecord, RecType
<1>5. \A k \in Links : rec[k] \in RecType
  BY <1>1 DEF StoreTyped
<1>6. /\ r \in [Links -> RecType]
      /\ r[j] = NewRecord
      /\ \A k \in Links : k # j => r[k] = NoRecord \/ r[k] = rec[k]
  <2>1. r[j] = NewRecord
    BY <1>2
  <2>2. ASSUME NEW k \in Links, k # j PROVE r[k] = NoRecord \/ r[k] = rec[k]
    <3>1. CASE k \in old
      BY <2>2, <3>1
    <3>2. CASE k \notin old
      BY <2>2, <3>2
    <3> QED BY <3>1, <3>2
  <2>3. r = [k \in Links |-> r[k]]
    OBVIOUS
  <2> HIDE DEF r
  <2>4. \A k \in Links : r[k] \in RecType
    BY <1>4, <1>5, <2>1, <2>2
  <2> QED BY <2>1, <2>2, <2>3, <2>4
<1> HIDE DEF r
<1>7. /\ queue' \in Seq(Links) /\ IsInjective(queue')
      /\ \A k \in Links : k # j => (Contains(queue', k) <=> Contains(queue, k))
      /\ Contains(queue', j) <=> j \in Public
  <2>1. CASE j \in Public
    BY <1>1, <1>2, <1>3, <2>1, AppendFacts DEF StoreTyped
  <2>2. CASE j \notin Public
    BY <1>1, <1>2, <1>3, <2>2 DEF StoreTyped
  <2> QED BY <2>1, <2>2
<1>8. rec' = Positioned(r, queue')
  BY <1>3 DEF r
<1>9. PICK s \in {"waiting", "pooled"} :
        WorkGoes(j, s) /\ (s = "waiting" <=> j \in Public)
  BY DEF CreatesLink
<1>10. ThreadMoves(j, s, work[j].tries, work[j].found)
  BY <1>1, <1>9, GoesMoves DEF Spots
<1>11. /\ work' \in [Links -> WorkType]
       /\ \A k \in Links : k # j => work'[k] = work[k]
       /\ work'[j].at = s /\ ~work'[j].found
  BY <1>2, <1>10 DEF ThreadMoves
<1>12. /\ rec' \in [Links -> RecType]
       /\ \A k \in Links : rec'[k].status = r[k].status /\ rec'[k].cancel = r[k].cancel
  BY <1>6, <1>7, <1>8, PositionedFacts
<1>13. \A k \in Links : k # j =>
         \/ rec'[k].status = "absent"
         \/ rec'[k].status = rec[k].status /\ rec'[k].cancel = rec[k].cancel
  BY <1>6, <1>12 DEF NoRecord
<1>14. rec'[j].status = "queued"
  BY <1>6, <1>12 DEF NewRecord
<1>15. StoreFrame({j})
  BY <1>1, <1>7, <1>9, <1>11, <1>12, <1>13, <1>14 DEF StoreFrame, Busy
<1>16. ASSUME QueueAgrees PROVE QueueAgrees'
  <2>1. ASSUME NEW k \in Links, r[k].status # "absent", ~Contains(queue', k)
        PROVE  r[k].position = 0
    <3>1. CASE k = j
      BY <1>6, <3>1 DEF NewRecord
    <3>2. CASE k # j
      <4>1. r[k] = rec[k] /\ Stored(k) /\ ~Contains(queue, k)
        BY <1>6, <1>7, <2>1, <3>2 DEF NoRecord, Stored
      <4> QED BY <1>1, <1>16, <4>1, PositionZero
    <3> QED BY <3>1, <3>2
  <2> QED BY <1>6, <1>7, <1>8, <2>1, PositionsAgree
<1>17. ASSUME AbsentInv PROVE AbsentInv'
  <2>1. \A k \in Links : r[k].status = "absent" => r[k].position = 0
    BY <1>6, <1>17 DEF AbsentInv, Stored, NewRecord, NoRecord
  <2> QED BY <1>6, <1>7, <1>8, <2>1, PositionsAbsent
<1> QED BY <1>2, <1>15, <1>16, <1>17 DEF Stored

LEMMA CancelsKeeps ==
  ASSUME LinksInv, NEW j \in Links, CancelsLink(j)
  PROVE  /\ LinksInv'
         /\ QueueAgrees => QueueAgrees'
         /\ AbsentInv => AbsentInv'
         /\ rec'[j].status = "cancelled"
         /\ \A k \in Links : rec'[k].status = rec[k].status \/ k = j
         /\ \A k \in Links : work'[k].tries = work[k].tries
<1> DEFINE written == [status |-> "cancelled", cancel |-> TRUE, position |-> 0]
           gone == [rec EXCEPT ![j] = written]
<1>1. StoreTyped /\ order' = order /\ Stored(j)
  BY DEF LinksInv, CancelsLink
<1>2. /\ gone \in [Links -> RecType] /\ gone[j] = written
      /\ \A k \in Links : k # j => gone[k] = rec[k]
  BY <1>1 DEF StoreTyped, RecType
<1>3. work[j] \in WorkType /\ work \in [Links -> WorkType]
  BY <1>1 DEF StoreTyped
<1>4. CASE WorkAt(j, "waiting")
  <2>1. /\ queue' = RemoveAt(queue, Place(queue, j))
        /\ rec' = Positioned(gone, queue')
        /\ WorkGoes(j, "done")
    BY <1>4 DEF CancelsLink
  <2>2. Contains(queue, j) /\ ~work[j].found
    BY <1>4 DEF LinksInv, QueueInv, FoundInv, WorkAt, Busy
  <2>3. /\ queue' \in Seq(Links) /\ IsInjective(queue')
        /\ \A k : Contains(queue', k) <=> Contains(queue, k) /\ k # j
    BY <1>1, <2>1, <2>2, RemoveFacts DEF StoreTyped
  <2>4. ThreadMoves(j, "done", work[j].tries, work[j].found)
    BY <1>1, <2>1, GoesMoves DEF Spots
  <2>5. /\ work' \in [Links -> WorkType]
        /\ \A k \in Links : k # j => work'[k] = work[k]
        /\ work'[j].at = "done" /\ ~work'[j].found /\ work'[j].tries = work[j].tries
    BY <2>2, <2>4 DEF ThreadMoves
  <2> HIDE DEF gone
  <2>6. /\ rec' \in [Links -> RecType]
        /\ \A k \in Links : rec'[k].status = gone[k].status /\ rec'[k].cancel = gone[k].cancel
    BY <1>2, <2>1, <2>3, PositionedFacts
  <2>7. /\ rec'[j].status = "cancelled" /\ rec'[j].cancel
        /\ \A k \in Links : k # j => rec'[k].status = rec[k].status /\ rec'[k].cancel = rec[k].cancel
    BY <1>2, <2>6
  <2>8. StoreFrame({j})
    BY <1>1, <2>3, <2>5, <2>6, <2>7 DEF StoreFrame, Busy
  <2>9. LinksInv'
    BY <2>8, StoreInvariant
  <2>10. ASSUME QueueAgrees PROVE QueueAgrees'
    <3>1. ASSUME NEW k \in Links, gone[k].status # "absent", ~Contains(queue', k)
          PROVE  gone[k].position = 0
      <4>1. CASE k = j
        BY <1>2, <4>1
      <4>2. CASE k # j
        <5>1. gone[k] = rec[k] /\ Stored(k) /\ ~Contains(queue, k)
          BY <1>2, <2>3, <3>1, <4>2 DEF Stored
        <5> QED BY <1>1, <2>10, <5>1, PositionZero
      <4> QED BY <4>1, <4>2
    <3> QED BY <1>2, <2>1, <2>3, <3>1, PositionsAgree
  <2>11. ASSUME AbsentInv PROVE AbsentInv'
    <3>1. \A k \in Links : gone[k].status = "absent" => gone[k].position = 0
      BY <1>2, <2>11 DEF AbsentInv, Stored
    <3> QED BY <1>2, <2>1, <2>3, <3>1, PositionsAbsent
  <2> QED BY <2>5, <2>7, <2>9, <2>10, <2>11
<1>5. CASE ~WorkAt(j, "waiting")
  <2>1. rec' = gone /\ queue' = queue /\ work' = work
    BY <1>5 DEF CancelsLink
  <2> HIDE DEF gone
  <2>2. /\ rec' \in [Links -> RecType]
        /\ rec'[j] = written
        /\ \A k \in Links : k # j => rec'[k] = rec[k]
    BY <1>2, <2>1
  <2>3. StoreTyped' /\ QueueInv' /\ LockInv' /\ OrderInv'
    BY <1>1, <2>1, <2>2 DEF LinksInv, StoreTyped, QueueInv, LockInv, OrderInv, WorkAt
  <2>4. FreshInv'
    BY <1>1, <2>1, <2>2 DEF LinksInv, FreshInv, WorkAt, Stored
  <2>5. CancelInv'
    BY <2>1, <2>2 DEF LinksInv, CancelInv
  <2>6. FoundInv'
    <3> SUFFICES ASSUME NEW k \in Links, work[k].found
                 PROVE  /\ work[k].at \in Busy \cup {"over", "done"}
                        /\ work[k].at \in {"loop", "trying"} => rec'[k].status = "absent"
                        /\ work[k].at = "deciding" /\ rec'[k].status # "absent" =>
                             rec'[k].status \in {"done", "cancelled"}
      BY <2>1 DEF FoundInv, WorkAt, Stored
    <3>1. CASE k = j
      BY <1>1, <2>2, <3>1 DEF LinksInv, FoundInv, WorkAt, Stored
    <3>2. CASE k # j
      BY <2>2, <3>2 DEF LinksInv, FoundInv, WorkAt, Stored
    <3> QED BY <3>1, <3>2
  <2>7. ASSUME QueueAgrees PROVE QueueAgrees'
    <3>1. ~Contains(queue, j)
      BY <1>5 DEF LinksInv, QueueInv
    <3> QED BY <2>1, <2>2, <2>7, <3>1 DEF QueueAgrees, Stored
  <2>8. AbsentInv => AbsentInv'
    BY <1>1, <2>2 DEF AbsentInv, Stored
  <2> QED BY <2>1, <2>2, <2>3, <2>4, <2>5, <2>6, <2>7, <2>8 DEF LinksInv
<1> QED BY <1>4, <1>5

LEMMA DispatchKeeps ==
  ASSUME LinksInv, Dispatches
  PROVE  /\ LinksInv'
         /\ QueueAgrees => QueueAgrees'
         /\ AbsentInv => AbsentInv'
         /\ \A k \in Links : rec'[k].status = rec[k].status
         /\ \A k \in Links : work'[k].tries = work[k].tries
<1> DEFINE j == Head(queue)
<1>1. StoreTyped /\ order' = order /\ queue # <<>> /\ queue' = Tail(queue)
  BY DEF LinksInv, Dispatches
<1>2. /\ queue' \in Seq(Links) /\ IsInjective(queue')
      /\ j \in Links /\ Contains(queue, j)
      /\ \A k : Contains(queue', k) <=> Contains(queue, k) /\ k # j
  BY <1>1, TailFacts DEF StoreTyped
<1>3. PICK r \in [Links -> RecType], s \in {"pooled", "done"} :
        /\ rec' = Positioned(r, queue') /\ WorkGoes(j, s)
        /\ \A k \in Links : r[k].status = rec[k].status /\ r[k].cancel = rec[k].cancel
        /\ IF Stored(j) THEN r[j].position = 0 ELSE r[j] = rec[j]
        /\ \A k \in Links : k # j => r[k] = rec[k]
  <2>1. CASE Stored(j)
    <3>1. rec' = Positioned([rec EXCEPT ![j].position = 0], queue') /\ WorkGoes(j, "pooled")
      BY <2>1 DEF Dispatches
    <3> DEFINE q == [rec EXCEPT ![j].position = 0]
    <3>2. /\ q \in [Links -> RecType]
          /\ \A k \in Links : q[k].status = rec[k].status /\ q[k].cancel = rec[k].cancel
          /\ q[j].position = 0
          /\ \A k \in Links : k # j => q[k] = rec[k]
      BY <1>1, <1>2 DEF StoreTyped, RecType
    <3> HIDE DEF q
    <3>3. rec' = Positioned(q, queue')
      BY <3>1 DEF q
    <3> QED BY <2>1, <3>1, <3>2, <3>3
  <2>2. CASE ~Stored(j)
    <3>1. rec' = Positioned(rec, queue') /\ WorkGoes(j, "done")
      BY <2>2 DEF Dispatches
    <3>2. rec \in [Links -> RecType]
      BY <1>1 DEF StoreTyped
    <3> QED BY <2>2, <3>1, <3>2
  <2> QED BY <2>1, <2>2
<1> HIDE DEF j
<1>4. WorkAt(j, "waiting") /\ ~work[j].found
  BY <1>2 DEF LinksInv, QueueInv, FoundInv, WorkAt, Busy
<1>5. ThreadMoves(j, s, work[j].tries, work[j].found)
  BY <1>1, <1>2, <1>3, GoesMoves DEF Spots
<1>6. /\ work' \in [Links -> WorkType]
      /\ \A k \in Links : k # j => work'[k] = work[k]
      /\ work'[j].at = s /\ ~work'[j].found /\ work'[j].tries = work[j].tries
  BY <1>4, <1>5 DEF ThreadMoves
<1>7. /\ rec' \in [Links -> RecType]
      /\ \A k \in Links : rec'[k].status = rec[k].status /\ rec'[k].cancel = rec[k].cancel
  BY <1>2, <1>3, PositionedFacts
<1>8. rec[j].status = "cancelled" => rec[j].cancel
  BY <1>2, <1>4 DEF LinksInv, CancelInv, WorkAt
<1>9. StoreFrame({j})
  BY <1>1, <1>2, <1>6, <1>7, <1>8 DEF StoreFrame, Busy
<1>10. LinksInv'
  BY <1>2, <1>9, StoreInvariant
<1>11. ASSUME QueueAgrees PROVE QueueAgrees'
  <2>1. ASSUME NEW k \in Links, r[k].status # "absent", ~Contains(queue', k)
        PROVE  r[k].position = 0
    <3>1. Stored(k)
      BY <1>3, <2>1 DEF Stored
    <3>2. CASE k = j
      BY <1>3, <3>1, <3>2
    <3>3. CASE k # j
      <4>1. r[k] = rec[k] /\ ~Contains(queue, k)
        BY <1>2, <1>3, <2>1, <3>3
      <4> QED BY <1>1, <1>11, <3>1, <4>1, PositionZero
    <3> QED BY <3>2, <3>3
  <2> QED BY <1>2, <1>3, <2>1, PositionsAgree
<1>12. ASSUME AbsentInv PROVE AbsentInv'
  <2>1. ASSUME NEW k \in Links, r[k].status = "absent" PROVE r[k].position = 0
    <3>1. ~Stored(k)
      BY <1>3, <2>1 DEF Stored
    <3>2. k # j => r[k] = rec[k]
      BY <1>3
    <3>3. k = j => r[k] = rec[k]
      BY <1>3, <3>1
    <3> QED BY <1>12, <3>1, <3>2, <3>3 DEF AbsentInv
  <2> QED BY <1>2, <1>3, <2>1, PositionsAbsent
<1> QED BY <1>2, <1>6, <1>7, <1>10, <1>11, <1>12

-----------------------------------------------------------------------------
(* Callbacks, and the clock. *)

\* What the record of an order may become.
OrderStep(j) ==
  /\ UNCHANGED <<rec, queue, workers, recent, work>>
  /\ order' \in [Links -> OrderType]
  /\ \A k \in Links : k # j => order'[k] = order[k]
  /\ order[j].status \notin Settled
  /\ order'[j].calls > 0 =>
       order'[j].busy /\ order'[j].calls = 1 /\ order'[j].status \notin Settled

LEMMA ExpiresStep ==
  ASSUME LinksInv, NEW j \in Links, OrderExpires(j)
  PROVE  OrderStep(j)
<1>1. order \in [Links -> OrderType]
  BY DEF LinksInv, StoreTyped
<1>2. order[j].calls > 0 => order[j].busy /\ order[j].calls = 1
  BY DEF LinksInv, OrderInv
<1>3. order' = [order EXCEPT ![j].status = "expired"] /\ order[j].status = "waiting_callback"
  BY DEF OrderExpires
<1>4. order' \in [Links -> OrderType]
  BY <1>1, <1>3 DEF OrderType
<1>5. /\ order'[j].calls = order[j].calls /\ order'[j].busy = order[j].busy
      /\ order'[j].status = "expired"
      /\ \A k \in Links : k # j => order'[k] = order[k]
  BY <1>1, <1>3 DEF OrderType
<1> QED BY <1>2, <1>3, <1>4, <1>5 DEF OrderStep, OrderExpires, Settled

LEMMA ComesStep ==
  ASSUME LinksInv, NEW j \in Links, CallbackComes(j)
  PROVE  OrderStep(j)
<1>1. order \in [Links -> OrderType] /\ order[j].calls \in Nat
  BY DEF LinksInv, StoreTyped, OrderType
<1>2. order[j].status \in {"waiting_callback", "paying"} /\ ~order[j].busy
  BY DEF CallbackComes
<1>3. order[j].calls = 0
  BY <1>1, <1>2 DEF LinksInv, OrderInv
<1>4. CASE order' = [order EXCEPT ![j].busy = TRUE, ![j].calls = @ + 1]
  <2>1. order' \in [Links -> OrderType]
    BY <1>1, <1>4 DEF OrderType
  <2>2. /\ order'[j].calls = order[j].calls + 1 /\ order'[j].busy = TRUE
        /\ order'[j].status = order[j].status
        /\ \A k \in Links : k # j => order'[k] = order[k]
    BY <1>1, <1>4 DEF OrderType
  <2> QED BY <1>2, <1>3, <2>1, <2>2 DEF OrderStep, CallbackComes, Settled
<1>5. CASE order' = [order EXCEPT ![j].status = "expired"]
  <2>1. order' \in [Links -> OrderType]
    BY <1>1, <1>5 DEF OrderType
  <2>2. /\ order'[j].calls = order[j].calls /\ order'[j].status = "expired"
        /\ \A k \in Links : k # j => order'[k] = order[k]
    BY <1>1, <1>5 DEF OrderType
  <2> QED BY <1>2, <1>3, <2>1, <2>2 DEF OrderStep, CallbackComes, Settled
<1> QED BY <1>4, <1>5 DEF CallbackComes

LEMMA EndsStep ==
  ASSUME LinksInv, NEW j \in Links, CallbackEnds(j)
  PROVE  OrderStep(j)
<1>1. order \in [Links -> OrderType]
  BY DEF LinksInv, StoreTyped
<1>2. order[j].calls = 1 /\ order[j].status \notin Settled
  BY DEF LinksInv, OrderInv, CallbackEnds
<1>3. PICK status \in {"paying"} \cup Settled :
        order' = [order EXCEPT ![j].status = status, ![j].busy = FALSE, ![j].calls = @ - 1]
  BY DEF CallbackEnds
<1>4. order[j].calls - 1 = 0
  BY <1>2
<1>5. /\ order' \in [Links -> OrderType]
      /\ order'[j].calls = order[j].calls - 1
      /\ \A k \in Links : k # j => order'[k] = order[k]
  BY <1>1, <1>3, <1>4 DEF OrderType, Settled
<1> QED BY <1>2, <1>4, <1>5 DEF OrderStep, CallbackEnds

LEMMA OrderInvariant ==
  ASSUME LinksInv, NEW j \in Links, OrderStep(j)
  PROVE  LinksInv' /\ (QueueAgrees => QueueAgrees')
<1>1. rec' = rec /\ queue' = queue /\ work' = work
  BY DEF OrderStep
<1>2. StoreTyped' /\ QueueInv' /\ LockInv' /\ FreshInv' /\ CancelInv'
  BY <1>1 DEF LinksInv, StoreTyped, QueueInv, LockInv, FreshInv, CancelInv, OrderStep, WorkAt, Stored
<1>3. FoundInv'
  BY <1>1 DEF LinksInv, FoundInv, WorkAt, Stored
<1>4. OrderInv'
  BY DEF LinksInv, OrderInv, OrderStep
<1>5. QueueAgrees => QueueAgrees'
  BY <1>1 DEF QueueAgrees, Stored
<1> QED BY <1>2, <1>3, <1>4, <1>5 DEF LinksInv

LEMMA IdleInvariant ==
  ASSUME LinksInv, UNCHANGED <<rec, queue, work, order>>
  PROVE  LinksInv' /\ (QueueAgrees => QueueAgrees')
<1>1. StoreTyped' /\ QueueInv' /\ LockInv' /\ FreshInv' /\ CancelInv' /\ OrderInv'
  BY DEF LinksInv, StoreTyped, QueueInv, LockInv, FreshInv, CancelInv, OrderInv, WorkAt, Stored
<1>2. FoundInv'
  BY DEF LinksInv, FoundInv, WorkAt, Stored
<1>3. QueueAgrees => QueueAgrees'
  BY DEF QueueAgrees, Stored
<1> QED BY <1>1, <1>2, <1>3 DEF LinksInv

-----------------------------------------------------------------------------
(* The steps together. *)

\* What one step of the store may do to the history of a job and of an order.
StepKeeps(j) ==
  /\ rec[j].status = "cancelled" => rec'[j].status \in {"cancelled", "absent"}
  /\ work[j].found /\ work'[j].tries > work[j].tries => ~Stored(j)
  /\ order[j].status \in Settled => order'[j].status = order[j].status

LEMMA ThreadKeepsHistory ==
  ASSUME LinksInv, NEW j \in Links, ThreadFrame(j), ThreadKeeps(j), NEW k \in Links
  PROVE  StepKeeps(k)
<1>1. rec[k].status = "cancelled" => rec'[k].status = "cancelled"
  BY DEF ThreadFrame
<1>2. work[k].found /\ work'[k].tries > work[k].tries => ~Stored(k)
  <2>1. CASE k = j
    BY <2>1 DEF ThreadKeeps, Stored
  <2>2. CASE k # j
    <3>1. work'[k] = work[k] /\ work[k].tries \in Nat
      BY <2>2 DEF ThreadFrame, LinksInv, StoreTyped, WorkType
    <3> QED BY <3>1
  <2> QED BY <2>1, <2>2
<1>3. order[k].status \in Settled => order'[k].status = order[k].status
  BY DEF ThreadFrame, Settled
<1> QED BY <1>1, <1>2, <1>3 DEF StepKeeps

LEMMA StillTries ==
  ASSUME LinksInv, NEW k \in Links, work'[k].tries = work[k].tries
  PROVE  ~(work'[k].tries > work[k].tries)
<1>1. work[k].tries \in Nat
  BY DEF LinksInv, StoreTyped, WorkType
<1> QED BY <1>1

LEMMA LinksStep ==
  ASSUME LinksAssumption, LinksInv, [LinksNext]_linkVars
  PROVE  LinksInv' /\ (QueueAgrees => QueueAgrees') /\ \A k \in Links : StepKeeps(k)
<1>1. ASSUME NEW j \in Links, LinkThread(j)
      PROVE  LinksInv' /\ (QueueAgrees => QueueAgrees') /\ \A k \in Links : StepKeeps(k)
  <2>1. ThreadFrame(j) /\ ThreadKeeps(j)
    BY <1>1, TakesTokenLockKeeps, BeginsTryKeeps, TryFailsKeeps, TryFindsKeeps, DecidesKeeps,
       UnlocksKeeps, WorkerDoneKeeps DEF LinkThread
  <2> QED BY <2>1, ThreadInvariant, ThreadKeepsHistory
<1>2. ASSUME NEW j \in Links, CreatesLink(j)
      PROVE  LinksInv' /\ (QueueAgrees => QueueAgrees') /\ \A k \in Links : StepKeeps(k)
  <2>1. StoreFrame({j}) /\ rec[j].status = "absent" /\ (QueueAgrees => QueueAgrees')
    BY <1>2, CreatesKeeps
  <2>2. ASSUME NEW k \in Links PROVE StepKeeps(k)
    <3>1. rec[k].status = "cancelled" => rec'[k].status \in {"cancelled", "absent"}
      <4>1. CASE k = j
        BY <2>1, <4>1
      <4>2. CASE k # j
        BY <2>1, <4>2 DEF StoreFrame
      <4> QED BY <4>1, <4>2
    <3>2. work[k].found => ~(work'[k].tries > work[k].tries)
      <4>1. CASE k = j
        BY <1>2, <4>1 DEF LinksInv, FoundInv, CreatesLink, WorkAt, Busy
      <4>2. CASE k # j
        <5>1. work'[k].tries = work[k].tries
          BY <2>1, <4>2 DEF StoreFrame
        <5> QED BY <5>1, StillTries
      <4> QED BY <4>1, <4>2
    <3>3. order' = order
      BY <2>1 DEF StoreFrame
    <3> QED BY <3>1, <3>2, <3>3 DEF StepKeeps
  <2> QED BY <2>1, <2>2, StoreInvariant
<1>3. ASSUME NEW j \in Links, CancelsLink(j)
      PROVE  LinksInv' /\ (QueueAgrees => QueueAgrees') /\ \A k \in Links : StepKeeps(k)
  <2>1. /\ LinksInv' /\ (QueueAgrees => QueueAgrees') /\ rec'[j].status = "cancelled"
        /\ \A k \in Links : rec'[k].status = rec[k].status \/ k = j
        /\ \A k \in Links : work'[k].tries = work[k].tries
    BY <1>3, CancelsKeeps
  <2>2. order' = order
    BY <1>3 DEF CancelsLink
  <2>3. ASSUME NEW k \in Links PROVE StepKeeps(k)
    <3>1. rec[k].status = "cancelled" => rec'[k].status = "cancelled"
      BY <2>1
    <3>2. ~(work'[k].tries > work[k].tries)
      BY <2>1, StillTries
    <3> QED BY <2>2, <3>1, <3>2 DEF StepKeeps
  <2> QED BY <2>1, <2>3
<1>4. ASSUME Dispatches
      PROVE  LinksInv' /\ (QueueAgrees => QueueAgrees') /\ \A k \in Links : StepKeeps(k)
  <2>1. /\ LinksInv' /\ (QueueAgrees => QueueAgrees')
        /\ \A k \in Links : rec'[k].status = rec[k].status
        /\ \A k \in Links : work'[k].tries = work[k].tries
    BY <1>4, DispatchKeeps
  <2>2. order' = order
    BY <1>4 DEF Dispatches
  <2>3. ASSUME NEW k \in Links PROVE StepKeeps(k)
    <3>1. rec'[k].status = rec[k].status
      BY <2>1
    <3>2. ~(work'[k].tries > work[k].tries)
      BY <2>1, StillTries
    <3> QED BY <2>2, <3>1, <3>2 DEF StepKeeps
  <2> QED BY <2>1, <2>3
<1>5. ASSUME NEW j \in Links, OrderExpires(j) \/ CallbackComes(j) \/ CallbackEnds(j)
      PROVE  LinksInv' /\ (QueueAgrees => QueueAgrees') /\ \A k \in Links : StepKeeps(k)
  <2>1. OrderStep(j)
    BY <1>5, ExpiresStep, ComesStep, EndsStep
  <2>2. ASSUME NEW k \in Links PROVE StepKeeps(k)
    <3>1. rec' = rec /\ work' = work
      BY <2>1 DEF OrderStep
    <3>2. ~(work'[k].tries > work[k].tries)
      BY <3>1, StillTries
    <3>3. order[k].status \in Settled => order'[k].status = order[k].status
      BY <2>1 DEF OrderStep
    <3> QED BY <3>1, <3>2, <3>3 DEF StepKeeps
  <2> QED BY <2>1, <2>2, OrderInvariant
<1>6. ASSUME UNCHANGED <<rec, queue, work, order>>
      PROVE  LinksInv' /\ (QueueAgrees => QueueAgrees') /\ \A k \in Links : StepKeeps(k)
  <2>1. ASSUME NEW k \in Links PROVE StepKeeps(k)
    <3>1. ~(work'[k].tries > work[k].tries)
      BY <1>6, StillTries
    <3> QED BY <1>6, <3>1 DEF StepKeeps
  <2> QED BY <1>6, <2>1, IdleInvariant
<1>7. CASE MinutePasses
  BY <1>6, <1>7 DEF MinutePasses
<1>8. CASE UNCHANGED linkVars
  BY <1>6, <1>8 DEF linkVars
<1> QED BY <1>1, <1>2, <1>3, <1>4, <1>5, <1>7, <1>8 DEF LinksNext

LEMMA LinksStart ==
  ASSUME LinksInit
  PROVE  LinksInv /\ QueueAgrees
<1>1. /\ NoRecord \in RecType
      /\ [at |-> "none", tries |-> 0, found |-> FALSE] \in WorkType
      /\ [status |-> "none", busy |-> FALSE, calls |-> 0] \in OrderType
  BY DEF NoRecord, RecType, WorkType, OrderType
<1>2. queue \in Seq(Links) /\ IsInjective(queue) /\ \A j : ~Contains(queue, j)
  BY DEF LinksInit, IsInjective, Contains
<1>3. StoreTyped
  BY <1>1, <1>2 DEF LinksInit, StoreTyped
<1>4. QueueInv /\ LockInv /\ FreshInv /\ CancelInv /\ FoundInv /\ OrderInv
  BY <1>2 DEF LinksInit, NoRecord, QueueInv, LockInv, FreshInv, CancelInv, FoundInv, OrderInv,
              WorkAt, Stored, Busy
<1>5. QueueAgrees
  BY DEF LinksInit, NoRecord, QueueAgrees, Stored
<1> QED BY <1>3, <1>4, <1>5 DEF LinksInv

LEMMA LinksAlways == LinksSpec => []LinksInv
<1>1. LinksInit => LinksInv
  BY LinksStart
<1>2. LinksInv /\ [LinksNext]_linkVars => LinksInv'
  BY LinksStep, LinksAssumption
<1> QED BY <1>1, <1>2, PTL DEF LinksSpec

-----------------------------------------------------------------------------
(***************************************************************************)
(* The counters.  A public job's thread is counted from its dispatch until *)
(* _worker_done, wherever it is in between, cancelled or forgotten; and an *)
(* attempt is begun only when one is left.                                 *)
(***************************************************************************)

Holding == Busy \cup {"pooled", "over"}
Held    == {j \in Public : work[j].at \in Holding}
Early   == {"none", "waiting", "pooled", "loop"}

WaitInv == \A j \in Links : WorkAt(j, "waiting") => j \in Public

TriesInv ==
  \A j \in Links : /\ work[j].tries <= MaxTries
                   /\ work[j].at \in Early => work[j].tries < MaxTries

QuotaInv == workers = Cardinality(Held) /\ workers <= WorkerLimit /\ recent \in 0..GlobalRpm

CountInv == AbsentInv /\ WaitInv /\ TriesInv /\ QuotaInv

LEMMA LimitFacts ==
  /\ WorkerLimit \in Nat \ {0} /\ GlobalRpm \in Nat \ {0} /\ MaxTries \in Nat \ {0}
  /\ MaxCalls \in Nat \ {0}
BY LinksAssumption

LEMMA HeldFacts ==
  IsFiniteSet(Held) /\ Cardinality(Held) \in Nat
<1>1. Held \in SUBSET Links
  BY DEF Held, Public
<1> QED BY <1>1, LinksAssumption, FS_Subset, FS_CardinalityType

\* What a move of one thread does to them.
LEMMA MoveCounts ==
  ASSUME StoreTyped, WaitInv, TriesInv, NEW j \in Links, NEW s \in Spots, NEW n \in Nat, NEW f,
         ThreadMoves(j, s, n, f),
         n <= MaxTries, s \in Early => n < MaxTries, s = "waiting" => j \in Public
  PROVE  /\ WaitInv' /\ TriesInv'
         /\ Held' = IF j \in Public /\ s \in Holding THEN Held \cup {j} ELSE Held \ {j}
<1>1. /\ \A k \in Links : k # j => work'[k] = work[k]
      /\ work'[j].at = s /\ work'[j].tries = n
  BY DEF ThreadMoves
<1>2. WaitInv'
  BY <1>1 DEF WaitInv, WorkAt
<1>3. TriesInv'
  BY <1>1 DEF TriesInv
<1>4. Held' = IF j \in Public /\ s \in Holding THEN Held \cup {j} ELSE Held \ {j}
  BY <1>1 DEF Held, Public
<1> QED BY <1>2, <1>3, <1>4

\* A move that leaves the set of counted threads as it is.
LEMMA MoveKeepsCount ==
  ASSUME StoreTyped, CountInv, NEW j \in Links, NEW s \in Spots, NEW n \in Nat, NEW f,
         ThreadMoves(j, s, n, f), workers' = workers, recent' = recent,
         n <= MaxTries, s \in Early => n < MaxTries, s # "waiting",
         j \in Public => (s \in Holding <=> work[j].at \in Holding)
  PROVE  WaitInv' /\ TriesInv' /\ QuotaInv'
<1>1. /\ WaitInv' /\ TriesInv'
      /\ Held' = IF j \in Public /\ s \in Holding THEN Held \cup {j} ELSE Held \ {j}
  BY MoveCounts DEF CountInv
<1>2. Held' = Held
  BY <1>1 DEF Held
<1> QED BY <1>1, <1>2 DEF CountInv, QuotaInv

LEMMA ThreadCounts ==
  ASSUME LinksInv, CountInv, NEW j \in Links, LinkThread(j)
  PROVE  WaitInv' /\ TriesInv' /\ QuotaInv'
<1> DEFINE n == work[j].tries
           f == work[j].found
<1>1. /\ StoreTyped /\ n \in Nat /\ n <= MaxTries /\ n + 1 \in Nat
      /\ work[j].at \in Early => n < MaxTries
      /\ MaxTries \in Nat
  BY LimitFacts DEF LinksInv, StoreTyped, WorkType, CountInv, TriesInv
<1>2. CASE TakesTokenLock(j)
  <2>1. PICK s \in {"over", "loop"} : WorkGoes(j, s)
    BY <1>2 DEF TakesTokenLock
  <2>2. s \in Spots /\ s \in Holding /\ work[j].at = "pooled" /\ s # "waiting"
    BY <1>2 DEF TakesTokenLock, WorkAt, Spots, Holding, Busy
  <2>3. ThreadMoves(j, s, n, f)
    BY <1>1, <2>1, <2>2, GoesMoves
  <2>4. workers' = workers /\ recent' = recent /\ "pooled" \in Holding /\ "pooled" \in Early
    BY <1>2 DEF TakesTokenLock, Holding, Early
  <2> QED BY <1>1, <2>2, <2>3, <2>4, MoveKeepsCount
<1>3. CASE BeginsTry(j)
  <2>1. /\ work[j].at = "loop" /\ workers' = workers /\ recent' = recent
        /\ "loop" \in Holding /\ "loop" \in Early /\ "loop" \in Spots /\ "loop" # "waiting"
        /\ \A s \in {"trying", "unlocking"} :
             s \in Holding /\ s \in Spots /\ s \notin Early /\ s # "waiting"
    BY <1>3 DEF BeginsTry, WorkAt, Holding, Busy, Early, Spots
  <2>2. n < MaxTries /\ n + 1 <= MaxTries
    BY <1>1, <2>1
  <2>3. CASE rec[j].cancel
    <3>1. WorkGoes(j, "unlocking")
      BY <1>3, <2>3 DEF BeginsTry
    <3>2. ThreadMoves(j, "unlocking", n, f)
      BY <1>1, <2>1, <3>1, GoesMoves
    <3> QED BY <1>1, <2>1, <3>2, MoveKeepsCount
  <2>4. CASE ~rec[j].cancel
    <3>1. PICK s \in {"trying", "loop", "unlocking"} :
            /\ work' = [work EXCEPT ![j].at = s, ![j].tries = @ + 1]
            /\ s = "loop" => n + 1 # MaxTries
      BY <1>3, <2>4 DEF BeginsTry
    <3>2. s \in Spots /\ s \in Holding /\ s # "waiting" /\ (s \in Early => n + 1 < MaxTries)
      BY <1>1, <2>1, <2>2, <3>1
    <3>3. ThreadMoves(j, s, n + 1, f)
      BY <1>1, <3>1, <3>2, SpendsMoves
    <3> QED BY <1>1, <2>1, <2>2, <3>2, <3>3, MoveKeepsCount
  <2> QED BY <2>3, <2>4
<1>4. CASE TryFails(j)
  <2>1. /\ work[j].at = "trying" /\ WorkGoes(j, "deciding")
        /\ workers' = workers /\ recent' = recent
    BY <1>4 DEF TryFails, WorkAt
  <2>2. /\ "deciding" \in Spots /\ "deciding" \in Holding /\ "trying" \in Holding
        /\ "deciding" \notin Early /\ "deciding" # "waiting"
    BY DEF Spots, Holding, Busy, Early
  <2>3. ThreadMoves(j, "deciding", n, f)
    BY <1>1, <2>1, <2>2, GoesMoves
  <2> QED BY <1>1, <2>1, <2>2, <2>3, MoveKeepsCount
<1>5. CASE TryFinds(j)
  <2>1. /\ work[j].at = "trying"
        /\ work' = [work EXCEPT ![j].at = "deciding", ![j].found = TRUE]
        /\ workers' = workers /\ recent' = recent
    BY <1>5 DEF TryFinds, WorkAt
  <2>2. /\ "deciding" \in Spots /\ "deciding" \in Holding /\ "trying" \in Holding
        /\ "deciding" \notin Early /\ "deciding" # "waiting"
    BY DEF Spots, Holding, Busy, Early
  <2>3. ThreadMoves(j, "deciding", n, TRUE)
    BY <1>1, <2>1, <2>2, FindsMoves
  <2> QED BY <1>1, <2>1, <2>2, <2>3, MoveKeepsCount
<1>6. CASE Decides(j)
  <2>1. /\ work[j].at = "deciding" /\ workers' = workers /\ recent' = recent
        /\ \A s \in {"deciding", "unlocking", "loop", "trying"} :
             s \in Holding /\ s \in Spots /\ s # "waiting"
        /\ \A s \in {"unlocking", "trying"} : s \notin Early
    BY <1>6 DEF Decides, WorkAt, Holding, Busy, Early, Spots
  <2>2. \/ WorkGoes(j, "unlocking")
        \/ n < MaxTries /\ WorkGoes(j, "loop")
        \/ n < MaxTries /\ work' = [work EXCEPT ![j].at = "trying", ![j].tries = @ + 1]
    BY <1>6 DEF Decides
  <2>3. CASE WorkGoes(j, "unlocking")
    <3>1. ThreadMoves(j, "unlocking", n, f)
      BY <1>1, <2>1, <2>3, GoesMoves
    <3> QED BY <1>1, <2>1, <3>1, MoveKeepsCount
  <2>4. CASE n < MaxTries /\ WorkGoes(j, "loop")
    <3>1. ThreadMoves(j, "loop", n, f)
      BY <1>1, <2>1, <2>4, GoesMoves
    <3> QED BY <1>1, <2>1, <2>4, <3>1, MoveKeepsCount
  <2>5. CASE n < MaxTries /\ work' = [work EXCEPT ![j].at = "trying", ![j].tries = @ + 1]
    <3>1. ThreadMoves(j, "trying", n + 1, f)
      BY <1>1, <2>1, <2>5, SpendsMoves
    <3>2. n + 1 <= MaxTries
      BY <1>1, <2>5
    <3> QED BY <1>1, <2>1, <3>1, <3>2, MoveKeepsCount
  <2> QED BY <2>2, <2>3, <2>4, <2>5
<1>7. CASE Unlocks(j)
  <2>1. /\ work[j].at = "unlocking" /\ WorkGoes(j, "over")
        /\ workers' = workers /\ recent' = recent
    BY <1>7 DEF Unlocks, WorkAt
  <2>2. /\ "over" \in Spots /\ "over" \in Holding /\ "unlocking" \in Holding
        /\ "over" \notin Early /\ "over" # "waiting"
    BY DEF Spots, Holding, Busy, Early
  <2>3. ThreadMoves(j, "over", n, f)
    BY <1>1, <2>1, <2>2, GoesMoves
  <2> QED BY <1>1, <2>1, <2>2, <2>3, MoveKeepsCount
<1>8. CASE WorkerDone(j)
  <2>1. /\ work[j].at = "over" /\ WorkGoes(j, "done") /\ recent' = recent
        /\ workers' = IF j \in Public THEN workers - 1 ELSE workers
    BY <1>8 DEF WorkerDone, WorkAt
  <2>2. /\ "done" \in Spots /\ "done" \notin Holding /\ "over" \in Holding
        /\ "done" \notin Early /\ "done" # "waiting"
    BY DEF Spots, Holding, Busy, Early
  <2>3. ThreadMoves(j, "done", n, f)
    BY <1>1, <2>1, <2>2, GoesMoves
  <2>4. WaitInv' /\ TriesInv' /\ Held' = Held \ {j}
    BY <1>1, <2>2, <2>3, MoveCounts DEF CountInv
  <2>5. j \in Held <=> j \in Public
    BY <2>1, <2>2 DEF Held
  <2>6. Cardinality(Held') = workers'
    BY <2>1, <2>4, <2>5, HeldFacts, FS_RemoveElement DEF CountInv, QuotaInv
  <2>7. workers' <= WorkerLimit
    BY <2>1, HeldFacts, LimitFacts DEF CountInv, QuotaInv
  <2> QED BY <2>1, <2>4, <2>6, <2>7 DEF CountInv, QuotaInv
<1> QED BY <1>2, <1>3, <1>4, <1>5, <1>6, <1>7, <1>8 DEF LinkThread

LEMMA StoreCounts ==
  ASSUME LinksInv, CountInv, NEW j \in Links, CreatesLink(j) \/ CancelsLink(j)
  PROVE  WaitInv' /\ TriesInv' /\ QuotaInv'
<1> DEFINE n == work[j].tries
           f == work[j].found
<1>1. /\ StoreTyped /\ n \in Nat /\ n <= MaxTries
      /\ work[j].at \in Early => n < MaxTries
      /\ workers' = workers /\ recent' = recent
  BY DEF LinksInv, StoreTyped, WorkType, CountInv, TriesInv, CreatesLink, CancelsLink
<1>2. CASE CreatesLink(j)
  <2>1. /\ work[j].at = "none"
        /\ WorkGoes(j, IF j \in Public THEN "waiting" ELSE "pooled")
    BY <1>2 DEF CreatesLink, WorkAt
  <2>2. /\ "waiting" \in Spots /\ "pooled" \in Spots /\ "none" \in Early
        /\ "waiting" \notin Holding /\ "none" \notin Holding
    BY DEF Spots, Early, Holding, Busy
  <2>3. CASE j \in Public
    <3>1. ThreadMoves(j, "waiting", n, f)
      BY <1>1, <2>1, <2>2, <2>3, GoesMoves
    <3>2. WaitInv' /\ TriesInv' /\ Held' = Held \ {j}
      BY <1>1, <2>1, <2>2, <2>3, <3>1, MoveCounts DEF CountInv
    <3>3. Held' = Held
      BY <2>1, <2>2, <3>2 DEF Held
    <3> QED BY <1>1, <3>2, <3>3 DEF CountInv, QuotaInv
  <2>4. CASE j \notin Public
    <3>1. ThreadMoves(j, "pooled", n, f)
      BY <1>1, <2>1, <2>2, <2>4, GoesMoves
    <3> QED BY <1>1, <2>1, <2>2, <2>4, <3>1, MoveKeepsCount
  <2> QED BY <2>3, <2>4
<1>3. CASE CancelsLink(j) /\ WorkAt(j, "waiting")
  <2>1. WorkGoes(j, "done") /\ work[j].at = "waiting"
    BY <1>3 DEF CancelsLink, WorkAt
  <2>2. /\ "done" \in Spots /\ "done" \notin Holding /\ "waiting" \notin Holding
        /\ "done" \notin Early /\ "done" # "waiting"
    BY DEF Spots, Early, Holding, Busy
  <2>3. ThreadMoves(j, "done", n, f)
    BY <1>1, <2>1, <2>2, GoesMoves
  <2> QED BY <1>1, <2>1, <2>2, <2>3, MoveKeepsCount
<1>4. CASE CancelsLink(j) /\ ~WorkAt(j, "waiting")
  <2>1. work' = work
    BY <1>4 DEF CancelsLink
  <2> QED BY <1>1, <2>1 DEF CountInv, WaitInv, TriesInv, QuotaInv, Held, WorkAt
<1> QED BY <1>2, <1>3, <1>4

LEMMA DispatchCounts ==
  ASSUME LinksInv, CountInv, Dispatches
  PROVE  WaitInv' /\ TriesInv' /\ QuotaInv'
<1> DEFINE j == Head(queue)
           n == work[j].tries
           f == work[j].found
<1>1. /\ StoreTyped /\ workers < WorkerLimit /\ recent < GlobalRpm /\ queue # <<>>
  BY DEF LinksInv, Dispatches
<1>2. j \in Links /\ Contains(queue, j)
  BY <1>1, TailFacts DEF StoreTyped
<1>3. work[j].at = "waiting" /\ j \in Public
  BY <1>2 DEF LinksInv, QueueInv, CountInv, WaitInv, WorkAt
<1>4. /\ "waiting" \in Early /\ "pooled" \in Spots /\ "done" \in Spots
      /\ "waiting" \notin Holding /\ "pooled" \in Holding /\ "done" \notin Holding
      /\ "done" \notin Early
  BY DEF Spots, Early, Holding, Busy
<1>5. n \in Nat /\ n < MaxTries /\ n <= MaxTries /\ j \notin Held
  BY <1>1, <1>2, <1>3, <1>4, LimitFacts DEF StoreTyped, WorkType, CountInv, TriesInv, Held
<1>6. CASE Stored(j)
  <2>1. WorkGoes(j, "pooled") /\ workers' = workers + 1 /\ recent' = recent + 1
    BY <1>6 DEF Dispatches
  <2> HIDE DEF j
  <2>2. ThreadMoves(j, "pooled", n, f)
    BY <1>1, <1>2, <1>4, <2>1, GoesMoves
  <2>3. WaitInv' /\ TriesInv' /\ Held' = Held \cup {j}
    BY <1>1, <1>2, <1>3, <1>4, <1>5, <2>2, MoveCounts DEF CountInv
  <2>4. Cardinality(Held') = workers'
    BY <1>5, <2>1, <2>3, HeldFacts, FS_AddElement DEF CountInv, QuotaInv
  <2>5. workers' <= WorkerLimit /\ recent' \in 0..GlobalRpm
    BY <1>1, <2>1, HeldFacts, LimitFacts DEF CountInv, QuotaInv
  <2> QED BY <2>3, <2>4, <2>5 DEF QuotaInv
<1>7. CASE ~Stored(j)
  <2>1. WorkGoes(j, "done") /\ workers' = workers /\ recent' = recent
    BY <1>7 DEF Dispatches
  <2> HIDE DEF j
  <2>2. ThreadMoves(j, "done", n, f)
    BY <1>1, <1>2, <1>4, <2>1, GoesMoves
  <2> QED BY <1>1, <1>2, <1>3, <1>4, <1>5, <2>1, <2>2, MoveKeepsCount
<1> QED BY <1>6, <1>7

LEMMA CountStep ==
  ASSUME LinksInv, CountInv, [LinksNext]_linkVars
  PROVE  CountInv'
<1>1. ASSUME NEW j \in Links, LinkThread(j)
      PROVE  CountInv'
  <2>1. ThreadFrame(j)
    BY <1>1, TakesTokenLockKeeps, BeginsTryKeeps, TryFailsKeeps, TryFindsKeeps, DecidesKeeps,
       UnlocksKeeps, WorkerDoneKeeps DEF LinkThread
  <2>2. \A k \in Links : /\ rec'[k].position = rec[k].position
                         /\ rec'[k].status = "absent" <=> rec[k].status = "absent"
    BY <2>1 DEF ThreadFrame
  <2>3. AbsentInv'
    BY <2>2 DEF CountInv, AbsentInv, Stored
  <2> QED BY <1>1, <2>3, ThreadCounts DEF CountInv
<1>2. ASSUME NEW j \in Links, CreatesLink(j) \/ CancelsLink(j)
      PROVE  CountInv'
  <2>1. AbsentInv'
    BY <1>2, CreatesKeeps, CancelsKeeps, LinksAssumption DEF CountInv
  <2> QED BY <1>2, <2>1, StoreCounts DEF CountInv
<1>3. CASE Dispatches
  <2>1. AbsentInv'
    BY <1>3, DispatchKeeps DEF CountInv
  <2> QED BY <1>3, <2>1, DispatchCounts DEF CountInv
<1>4. ASSUME rec' = rec, workers' = workers, work' = work,
             recent' = recent \/ (recent > 0 /\ recent' = recent - 1)
      PROVE  CountInv'
  <2>1. recent' \in 0..GlobalRpm
    BY <1>4, LimitFacts DEF CountInv, QuotaInv
  <2> QED BY <1>4, <2>1
          DEF CountInv, AbsentInv, WaitInv, TriesInv, QuotaInv, Held, WorkAt, Stored
<1>5. ASSUME NEW j \in Links, OrderExpires(j) \/ CallbackComes(j) \/ CallbackEnds(j)
      PROVE  CountInv'
  <2>1. rec' = rec /\ workers' = workers /\ work' = work /\ recent' = recent
    BY <1>5 DEF OrderExpires, CallbackComes, CallbackEnds
  <2> QED BY <1>4, <2>1
<1>6. CASE MinutePasses
  <2>1. /\ rec' = rec /\ workers' = workers /\ work' = work
        /\ recent > 0 /\ recent' = recent - 1
    BY <1>6 DEF MinutePasses
  <2> QED BY <1>4, <2>1
<1>7. CASE UNCHANGED linkVars
  <2>1. rec' = rec /\ workers' = workers /\ work' = work /\ recent' = recent
    BY <1>7 DEF linkVars
  <2> QED BY <1>4, <2>1
<1> QED BY <1>1, <1>2, <1>3, <1>5, <1>6, <1>7 DEF LinksNext

LEMMA CountStart ==
  ASSUME LinksInit
  PROVE  CountInv
<1>1. Held = {}
  BY DEF LinksInit, Held, Holding, Busy, Public
<1>2. Cardinality(Held) = 0
  BY <1>1, FS_EmptySet
<1> QED BY <1>2, LimitFacts
        DEF LinksInit, NoRecord, CountInv, AbsentInv, WaitInv, TriesInv, QuotaInv, WorkAt

\* Nothing waits twice, so the queue is no longer than there are jobs.
LEMMA QueueLength ==
  ASSUME StoreTyped
  PROVE  Len(queue) \in Nat /\ Len(queue) <= Cardinality(Links) /\ DOMAIN queue = 1..Len(queue)
<1>1. queue \in Seq(Links) /\ IsInjective(queue)
  BY DEF StoreTyped
<1>2. Len(queue) \in Nat /\ DOMAIN queue = 1..Len(queue) /\ queue \in [1..Len(queue) -> Links]
  BY <1>1
<1> DEFINE ranks == 1..Len(queue)
<1>3. IsFiniteSet(ranks) /\ Cardinality(ranks) = Len(queue)
  BY <1>2, FS_Interval
<1>4. ASSUME Cardinality(Links) < Cardinality(ranks) PROVE FALSE
  <2>1. \E x, y \in ranks : x # y /\ queue[x] = queue[y]
    BY <1>2, <1>3, <1>4, LinksAssumption, FS_PigeonHole
  <2> QED BY <1>1, <1>2, <2>1 DEF IsInjective
<1>5. Cardinality(Links) \in Nat
  BY LinksAssumption, FS_CardinalityType
<1> QED BY <1>2, <1>3, <1>4, <1>5

LEMMA LinksTypes ==
  ASSUME LinksInv, QueueAgrees, CountInv
  PROVE  LinksTypeOK
<1>1. StoreTyped
  BY DEF LinksInv
<1>2. ASSUME NEW j \in Links PROVE rec[j].position \in 0..Cardinality(Links)
  <2>1. rec[j].position \in Nat
    BY <1>1 DEF StoreTyped, RecType
  <2>2. rec[j].position = 0 \/ rec[j].position \in 1..Len(queue)
    BY <1>1, QueueLength DEF QueueAgrees, CountInv, AbsentInv
  <2>3. Cardinality(Links) \in Nat
    BY LinksAssumption, FS_CardinalityType
  <2> QED BY <1>1, <2>1, <2>2, <2>3, QueueLength
<1>3. rec \in [Links ->
       [status : {"absent", "queued", "running", "done", "error", "cancelled"},
        cancel : BOOLEAN, position : 0..Cardinality(Links)]]
  BY <1>1, <1>2 DEF StoreTyped, RecType
<1>4. IsInjective(queue) /\ Range(queue) \subseteq Public
  <2>1. ASSUME NEW i \in DOMAIN queue PROVE queue[i] \in Public
    <3>1. queue[i] \in Links /\ Contains(queue, queue[i])
      BY <1>1 DEF StoreTyped, Contains
    <3> QED BY <3>1 DEF LinksInv, QueueInv, CountInv, WaitInv
  <2> QED BY <1>1, <2>1 DEF StoreTyped, Range
<1>5. workers \in 0..WorkerLimit /\ recent \in 0..GlobalRpm
  BY HeldFacts, LimitFacts DEF CountInv, QuotaInv
<1>6. \A j \in Links : work[j].tries \in 0..MaxTries
  BY <1>1, LimitFacts DEF StoreTyped, WorkType, CountInv, TriesInv
<1>7. work \in [Links -> [at : Busy \cup {"none", "waiting", "pooled", "over", "done"},
                          tries : 0..MaxTries, found : BOOLEAN]]
  BY <1>1, <1>6 DEF StoreTyped, WorkType
<1>8. \A j \in Links : order[j].calls \in 0..MaxCalls
  BY <1>1, LimitFacts DEF StoreTyped, OrderType, LinksInv, OrderInv
<1>9. order \in [Links ->
       [status : Settled \cup {"none", "waiting_callback", "paying", "expired"},
        busy : BOOLEAN, calls : 0..MaxCalls]]
  BY <1>1, <1>8 DEF StoreTyped, OrderType
<1> QED BY <1>3, <1>4, <1>5, <1>7, <1>9 DEF LinksTypeOK

-----------------------------------------------------------------------------
(* The theorems. *)

\* The store is of its types: no more threads than WorkerLimit (active_workers is
\* what is counted), no more starts in a minute than GlobalRpm, no attempt after
\* the last, and positions within the queue.
THEOREM LinksTypeCorrect == LinksSpec => []LinksTypeOK
<1>1. LinksInit => LinksInv /\ QueueAgrees /\ CountInv
  BY LinksStart, CountStart
<1>2. /\ LinksInv /\ QueueAgrees /\ CountInv /\ [LinksNext]_linkVars
      => (LinksInv /\ QueueAgrees /\ CountInv)'
  BY LinksStep, CountStep, LinksAssumption
<1>3. LinksInv /\ QueueAgrees /\ CountInv => LinksTypeOK
  BY LinksTypes
<1> QED BY <1>1, <1>2, <1>3, PTL DEF LinksSpec

\* However many records the store forgets, and whichever jobs are cancelled in
\* whichever order, the positions it shows are the places in its queue.
THEOREM PositionsAgreeAlways == LinksSpec => []QueueAgrees
<1>1. LinksInit => LinksInv /\ QueueAgrees
  BY LinksStart
<1>2. LinksInv /\ QueueAgrees /\ [LinksNext]_linkVars => (LinksInv /\ QueueAgrees)'
  BY LinksStep, LinksAssumption
<1> QED BY <1>1, <1>2, PTL DEF LinksSpec

\* No two jobs make checkouts with one token text at a time, for any number of
\* jobs, texts and threads; two texts of one account are another matter.
THEOREM TextsExclusive == LinksSpec => []OneCheckoutPerText
<1>1. LinksInv => OneCheckoutPerText
  BY DEF LinksInv, LockInv, OneCheckoutPerText, WorkAt, Busy
<1> QED BY <1>1, LinksAlways, PTL

\* A record that says cancelled says so until it is forgotten.
THEOREM CancelsAreFinal == LinksSpec => CancelledLinkStays
<1>1. LinksInv /\ [LinksNext]_linkVars =>
        [\A j \in Links : rec[j].status = "cancelled" =>
           rec'[j].status \in {"cancelled", "absent"}]_linkVars
  BY LinksStep, LinksAssumption DEF StepKeeps
<1> QED BY <1>1, LinksAlways, PTL DEF LinksSpec, CancelledLinkStays

\* A job with a link makes no other, while its record is there to say so.
THEOREM LinksEndJobs == LinksSpec => LinkEndsJob
<1>1. LinksInv /\ [LinksNext]_linkVars =>
        [\A j \in Links : work[j].found /\ work'[j].tries > work[j].tries =>
           ~Stored(j)]_linkVars
  BY LinksStep, LinksAssumption DEF StepKeeps
<1> QED BY <1>1, LinksAlways, PTL DEF LinksSpec, LinkEndsJob

\* An order that was paid or failed stays so, for any number of callbacks.
THEOREM OrdersSettleOnce == LinksSpec => OrderSettlesOnce
<1>1. LinksInv /\ [LinksNext]_linkVars =>
        [\A j \in Links : order[j].status \in Settled =>
           order'[j].status = order[j].status]_linkVars
  BY LinksStep, LinksAssumption DEF StepKeeps
<1> QED BY <1>1, LinksAlways, PTL DEF LinksSpec, OrderSettlesOnce
=============================================================================

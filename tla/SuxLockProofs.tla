--------------------------- MODULE SuxLockProofs ----------------------------
(***************************************************************************)
(* The inductive invariant of SuxLock and the theorems about SuxLock, for  *)
(* any set of threads, any multiplier RECURSIVE_U and any depth of         *)
(* mini-transactions below it.                                             *)
(*                                                                         *)
(* A thread is in charge of the latch from the grant of U or X, before     *)
(* writer names it, until the inner latch is released, after writer has    *)
(* forgotten it.  The invariant says that one thread at most is in charge, *)
(* and what the counter, the inner latch and the entries of its            *)
(* mini-transaction are at each of its steps; one that is not in charge    *)
(* has an S latch or nothing.                                              *)
(***************************************************************************)
EXTENDS SuxLock, FiniteSetTheorems, TLAPS

----------------------------------------------------------------------------
(* The entries that a mini-transaction keeps for one latch, in the order of *)
(* the acquisitions, and a counter of two halves                            *)

Mode == {"S", "U", "X"}

\* The number of entries of a mode in a memo.
CountIn(s, mode) == Cardinality({i \in DOMAIN s : s[i] = mode})

\* A memo has finitely many entries, as many as its length.
LEMMA Indices ==
  ASSUME NEW s \in Seq(Mode)
  PROVE  IsFiniteSet(1 .. Len(s)) /\ Cardinality(1 .. Len(s)) = Len(s)
<1>1. Len(s) \in Nat
  OBVIOUS
<1>2. 1 \in Int /\ Len(s) \in Int
  BY <1>1
<1>3. /\ IsFiniteSet(1 .. Len(s))
      /\ Cardinality(1 .. Len(s)) = IF 1 > Len(s) THEN 0 ELSE Len(s) - 1 + 1
  BY <1>2, FS_Interval, Zenon
<1>4. \A n \in Nat : (IF 1 > n THEN 0 ELSE n - 1 + 1) = n
  OBVIOUS
<1> QED
  BY <1>1, <1>3, <1>4, Zenon

\* The entries of one mode are finitely many, at most all of them.
LEMMA CountRange ==
  ASSUME NEW s \in Seq(Mode), NEW k
  PROVE  /\ IsFiniteSet({i \in DOMAIN s : s[i] = k})
         /\ CountIn(s, k) \in 0 .. Len(s)
         /\ CountIn(s, k) = 0 <=> \A i \in DOMAIN s : s[i] # k
<1> DEFINE I == {i \in DOMAIN s : s[i] = k}
<1>1. DOMAIN s = 1 .. Len(s) /\ Len(s) \in Nat
  OBVIOUS
<1>2. IsFiniteSet(1 .. Len(s)) /\ Cardinality(1 .. Len(s)) = Len(s)
  BY Indices
<1>3. I \subseteq 1 .. Len(s)
  BY <1>1
<1> HIDE DEF I
<1>4. IsFiniteSet(I) /\ Cardinality(I) <= Cardinality(1 .. Len(s))
  BY <1>2, <1>3, FS_Subset, Zenon
<1>5. Cardinality(I) \in Nat
  BY <1>4, FS_CardinalityType
<1>6. Cardinality(I) = 0 <=> I = {}
  BY <1>4, FS_EmptySet
<1>7. CountIn(s, k) = Cardinality(I)
  BY DEF CountIn, I
<1>8. I = {} <=> \A i \in DOMAIN s : s[i] # k
  BY DEF I
<1> QED
  BY <1>1, <1>2, <1>4, <1>5, <1>6, <1>7, <1>8 DEF I

\* The same as arithmetic facts.
LEMMA Counts ==
  ASSUME NEW s \in Seq(Mode), NEW k
  PROVE  /\ CountIn(s, k) \in Nat /\ CountIn(s, k) <= Len(s)
         /\ CountIn(s, k) = 0 <=> \A i \in DOMAIN s : s[i] # k
<1>0. Len(s) \in Nat
  OBVIOUS
<1>1. CountIn(s, k) \in 0 .. Len(s)
  BY CountRange, Zenon
<1>2. CountIn(s, k) = 0 <=> \A i \in DOMAIN s : s[i] # k
  BY CountRange, Zenon
<1> QED
  BY <1>0, <1>1, <1>2

\* No entry counts twice.
LEMMA CountBoth ==
  ASSUME NEW s \in Seq(Mode)
  PROVE  CountIn(s, "X") + CountIn(s, "U") <= Len(s)
<1> DEFINE A == {i \in DOMAIN s : s[i] = "X"}
           B == {i \in DOMAIN s : s[i] = "U"}
<1>1. IsFiniteSet(A) /\ IsFiniteSet(B)
  BY CountRange, Zenon
<1>2. A \cup B \subseteq 1 .. Len(s) /\ A \cap B = {}
  OBVIOUS
<1>3. CountIn(s, "X") = Cardinality(A) /\ CountIn(s, "U") = Cardinality(B)
  BY DEF CountIn
<1> HIDE DEF A, B
<1>4. IsFiniteSet(1 .. Len(s)) /\ Cardinality(1 .. Len(s)) = Len(s)
  BY Indices
<1>5. Cardinality(A \cup B) <= Len(s)
  BY <1>2, <1>4, FS_Subset
<1>6. Cardinality(A \cup B) = Cardinality(A) + Cardinality(B) - Cardinality(A \cap B)
  BY <1>1, FS_Union
<1>7. Cardinality(A \cap B) = 0
  BY <1>2, FS_EmptySet, Zenon
<1>8. Cardinality(A) \in Nat /\ Cardinality(B) \in Nat
  BY <1>1, FS_CardinalityType
<1> QED
  BY <1>3, <1>5, <1>6, <1>7, <1>8

\* An entry that is pushed counts for its mode.
LEMMA CountPush ==
  ASSUME NEW s \in Seq(Mode), NEW m \in Mode, NEW k
  PROVE  CountIn(Append(s, m), k) = CountIn(s, k) + (IF m = k THEN 1 ELSE 0)
<1> DEFINE I == {i \in DOMAIN s : s[i] = k}
           J == {i \in DOMAIN Append(s, m) : Append(s, m)[i] = k}
<1>1. IsFiniteSet(I) /\ CountIn(s, k) = Cardinality(I) /\ CountIn(s, k) \in Nat
  <2>1. IsFiniteSet(I) /\ CountIn(s, k) \in 0 .. Len(s)
    BY CountRange
  <2> QED
    BY <2>1 DEF CountIn
<1>2. CountIn(Append(s, m), k) = Cardinality(J)
  BY DEF CountIn
<1>3. Len(s) + 1 \notin I
  OBVIOUS
<1>4. CASE m = k
  <2>1. J = I \cup {Len(s) + 1}
    BY <1>4
  <2> HIDE DEF I, J
  <2>2. Cardinality(J) = Cardinality(I) + 1
    BY <1>1, <1>3, <2>1, FS_AddElement, Zenon
  <2> QED
    BY <1>1, <1>2, <1>4, <2>2
<1>5. CASE m # k
  <2>1. J = I
    BY <1>5
  <2> HIDE DEF I, J
  <2> QED
    BY <1>1, <1>2, <1>5, <2>1
<1> QED
  BY <1>4, <1>5

\* A memo is its last entry appended to what is left when that is popped.
LEMMA Pop ==
  ASSUME NEW s \in Seq(Mode), s # <<>>
  PROVE  /\ SubSeq(s, 1, Len(s) - 1) \in Seq(Mode)
         /\ Len(SubSeq(s, 1, Len(s) - 1)) = Len(s) - 1
         /\ s[Len(s)] \in Mode
         /\ s = Append(SubSeq(s, 1, Len(s) - 1), s[Len(s)])
         /\ \A i \in 1 .. Len(s) - 1 : SubSeq(s, 1, Len(s) - 1)[i] = s[i]
<1> DEFINE r == SubSeq(s, 1, Len(s) - 1)
<1>1. r \in Seq(Mode) /\ s[Len(s)] \in Mode
  OBVIOUS
<1>2. s = Append(r, s[Len(s)])
  OBVIOUS
<1>3. \A i \in 1 .. Len(s) - 1 : r[i] = s[i]
  OBVIOUS
<1> HIDE DEF r
<1>4. Len(r) = Len(s) - 1
  BY <1>1, <1>2
<1> QED
  BY <1>1, <1>2, <1>3, <1>4 DEF r

\* All entries of one mode.
LEMMA CountAll ==
  ASSUME NEW s \in Seq(Mode), NEW k, \A i \in DOMAIN s : s[i] = k
  PROVE  /\ CountIn(s, k) = Len(s)
         /\ \A j : j # k => CountIn(s, j) = 0
<1>1. {i \in DOMAIN s : s[i] = k} = 1 .. Len(s)
  OBVIOUS
<1>2. CountIn(s, k) = Len(s)
  BY <1>1, Indices, Zenon DEF CountIn
<1>3. ASSUME NEW j, j # k PROVE CountIn(s, j) = 0
  <2>1. {i \in DOMAIN s : s[i] = j} = {}
    BY <1>3
  <2> QED
    BY <2>1, FS_EmptySet, Zenon DEF CountIn
<1> QED
  BY <1>2, <1>3

\* The halves of the counter do not run into each other.
LEMMA Halves ==
  ASSUME NEW r \in Nat, NEW a \in Nat, a < r, NEW b \in Nat
  PROVE  (a + r * b) % r = a /\ (a + r * b) \div r = b
<1>1. (a + r * b) % r = a
  BY SMTT(20)
<1>2. (a + r * b) \div r = b
  BY SMTT(20)
<1> QED
  BY <1>1, <1>2

\* Memos of at most one entry.
LEMMA CountOne ==
  /\ \A k : CountIn(<<>>, k) = 0
  /\ \A m \in Mode : \A k : CountIn(<<m>>, k) = IF m = k THEN 1 ELSE 0
<1>1. ASSUME NEW k PROVE CountIn(<<>>, k) = 0
  <2>1. {i \in DOMAIN <<>> : <<>>[i] = k} = {}
    OBVIOUS
  <2> QED
    BY <2>1, FS_EmptySet DEF CountIn
<1>2. ASSUME NEW m \in Mode, NEW k PROVE CountIn(<<m>>, k) = IF m = k THEN 1 ELSE 0
  <2>1. <<m>> \in Seq(Mode) /\ Len(<<m>>) = 1 /\ \A i \in DOMAIN <<m>> : <<m>>[i] = m
    OBVIOUS
  <2> QED
    BY <2>1, CountAll, Zenon
<1> QED
  BY <1>1, <1>2

----------------------------------------------------------------------------
(* The invariant *)

Owner == Thread \cup {NoThread, FOR_IO}

Labels == {"idle", "granted", "granted_io", "set_owner", "set_owner_io",
           "upgraded", "downgrade", "u_s_owner", "u_s_latch", "s_x_owner",
           "s_x_unlock", "s_x_upgrade", "s_x_recursive", "clear_owner",
           "unlock", "claimed"}

TypeOK ==
    /\ holdS \in SUBSET Thread
    /\ holdW \in [Holder -> {"none", "U", "X"}]
    /\ writer \in Owner
    /\ recursive \in Nat
    /\ pc \in [Thread -> Labels]
    /\ slot \in [Thread -> {"none", "U", "X"}]
    /\ memo \in [Thread -> Seq(Mode)]
    /\ \A t \in Thread : Len(memo[t]) <= MaxDepth
    /\ io \in {"none", "U", "X", "claimed"}

InCharge(t) == pc[t] # "idle" \/ writer = t

Claim == IF io = "claimed" THEN 1 ELSE 0

\* What the entries of an idle owner say of the inner latch.
Owning(s, h) ==
    /\ s # <<>> /\ s[1] = h
    /\ \A i \in DOMAIN s : s[i] = "X" => h = "X"
    /\ \A i \in DOMAIN s : s[i] = "S" => h = "U"
    /\ \A i, j \in DOMAIN s : s[i] = "S" /\ s[j] = "S" => i = j

IdleOwner(t) ==
    /\ recursive = CountIn(memo[t], "X") + RECURSIVE_U * CountIn(memo[t], "U") + Claim
    /\ IF io = "claimed"
       THEN holdW[FOR_IO] = "X" /\ \A i \in DOMAIN memo[t] : memo[t][i] # "S"
       ELSE /\ io = "none" /\ holdW[t] # "none" /\ Owning(memo[t], holdW[t])
            /\ \A i \in DOMAIN memo[t] : memo[t][i] = "S" => t \in holdS

\* The inner latch is in mode m at h for t, and the counter, the owner and t's
\* memo are n, w and s.
Latched(t, h, m, n, w, s) ==
    /\ holdW[h] = m /\ recursive = n /\ writer = w /\ memo[t] = s /\ io = "none"

\* A thread in the middle of an operation.
Busy(t) ==
    /\ pc[t] = "granted" =>
           slot[t] # "none" /\ Latched(t, t, slot[t], 0, NoThread, <<>>)
    /\ pc[t] = "granted_io" =>
           slot[t] # "none" /\ Latched(t, FOR_IO, slot[t], 0, NoThread, <<>>)
    /\ pc[t] = "set_owner" =>
           /\ slot[t] # "none"
           /\ Latched(t, t, slot[t], Multiplier(slot[t]), NoThread, <<>>)
    /\ pc[t] = "set_owner_io" =>
           /\ slot[t] # "none"
           /\ Latched(t, FOR_IO, slot[t], Multiplier(slot[t]), NoThread, <<>>)
    /\ pc[t] = "upgraded" =>
           /\ Latched(t, t, "X", RECURSIVE_U * Len(memo[t]), t, memo[t])
           /\ memo[t] # <<>> /\ \A i \in DOMAIN memo[t] : memo[t][i] = "U"
    /\ pc[t] = "downgrade" => Latched(t, t, "X", RECURSIVE_U, t, <<"X">>)
    /\ pc[t] = "u_s_owner" => Latched(t, t, "U", 0, t, <<"U">>)
    /\ pc[t] = "u_s_latch" => Latched(t, t, "U", 0, NoThread, <<"U">>)
    /\ pc[t] = "s_x_owner" => Latched(t, t, "U", 0, NoThread, <<"S">>)
    /\ pc[t] \in {"s_x_unlock", "s_x_upgrade"} => Latched(t, t, "U", 0, t, <<"S">>)
    /\ pc[t] = "s_x_recursive" => Latched(t, t, "X", 0, t, <<"S">>)
    /\ pc[t] = "clear_owner" =>
           /\ slot[t] # "none" /\ writer \in {t, FOR_IO}
           /\ Latched(t, PhysicalHolder(t), slot[t], 0, writer, <<>>)
    /\ pc[t] = "unlock" =>
           slot[t] # "none" /\ Latched(t, PhysicalHolder(t), slot[t], 0, NoThread, <<>>)
    /\ pc[t] = "claimed" =>
           /\ writer = t /\ recursive = RECURSIVE_X /\ io = "claimed"
           /\ holdW[FOR_IO] = "X" /\ memo[t] = <<>>

\* A thread that has no part in U and X.
Bystander(t) == memo[t] = <<>> \/ (memo[t] = <<"S">> /\ t \in holdS)

\* Nobody is in charge: the latch is free, or held by page I/O.
Unowned ==
    \/ io = "none" /\ writer = NoThread /\ recursive = 0
    \/ /\ io \in {"U", "X"} /\ writer = FOR_IO
       /\ recursive = Multiplier(io) /\ holdW[FOR_IO] = io

Own(t) ==
    /\ pc[t] # "idle" => Busy(t)
    /\ pc[t] = "idle" /\ writer = t => IdleOwner(t)
    /\ pc[t] = "idle" /\ writer # t => Bystander(t)

IInv ==
    /\ TypeOK
    /\ L!Exclusion
    /\ \A t, u \in Thread : InCharge(t) /\ InCharge(u) => t = u
    /\ \A t \in Thread : Own(t)
    /\ (\A t \in Thread : ~InCharge(t)) => Unowned

\* A thread that has no part in U and X has no such entry in its memo.
LEMMA BystanderHas ==
  \A t : Bystander(t) => ~Has(t, "U") /\ ~Has(t, "X") /\ ~(Has(t, "S") /\ memo[t] = <<>>)
  BY DEF Bystander, Has

\* A memo that is not empty has a first entry.
LEMMA FirstEntry == \A s \in Seq(Mode) : s # <<>> => 1 \in DOMAIN s
  OBVIOUS

\* A memo of one entry.
LEMMA OneEntry ==
  \A m \in Mode : <<m>> \in Seq(Mode) /\ Len(<<m>>) = 1 /\ DOMAIN <<m>> = {1} /\ <<m>>[1] = m
  OBVIOUS

----------------------------------------------------------------------------
(* What a step of one thread has to show                                     *)

\* The inner latch keeps what it promises.
LEMMA LatchKeeps ==
  ASSUME NEW h \in Holder, holdW \in [Holder -> {"none", "U", "X"}], L!Exclusion,
         \/ L!GrantS(h) \/ L!GrantU(h) \/ L!GrantX(h) \/ L!UpgradeU(h)
         \/ L!DowngradeX(h) \/ L!DowngradeU(h) \/ L!ReleaseS(h) \/ L!ReleaseW(h)
         \/ UNCHANGED latch
  PROVE  L!Exclusion'
  BY DEF L!Exclusion, L!GrantS, L!GrantU, L!GrantX, L!UpgradeU, L!DowngradeX,
         L!DowngradeU, L!ReleaseS, L!ReleaseW, latch

\* A thread in charge holds the inner latch, or does so through page I/O.
LEMMA ChargeHolds ==
  ASSUME IInv, NEW t \in Thread, InCharge(t)
  PROVE  /\ holdW[t] # "none" \/ holdW[FOR_IO] # "none"
         /\ io \in {"none", "claimed"}
<1> USE DEF IInv, TypeOK, Own, InCharge
<1>1. CASE pc[t] # "idle"
  BY <1>1 DEF Labels, Busy, Latched, PhysicalHolder
<1>2. CASE pc[t] = "idle"
  BY <1>2 DEF IdleOwner
<1> QED
  BY <1>1, <1>2

\* While page I/O owns the latch, or nobody holds it, no thread is in charge.
LEMMA NoCharge ==
  ASSUME IInv, io \in {"U", "X"} \/ \A h \in Holder : holdW[h] = "none"
  PROVE  (\A t \in Thread : ~InCharge(t)) /\ Unowned
  BY ChargeHolds DEF IInv, Holder

\* A step that is taken by the thread in charge, or makes its thread the one.
LEMMA StepInCharge ==
  ASSUME IInv, NEW t \in Thread, TypeOK', L!Exclusion',
         \A u \in Thread \ {t} : ~InCharge(u),
         \A u \in Thread \ {t} :
             /\ pc'[u] = pc[u] /\ memo'[u] = memo[u]
             /\ u \in holdS' <=> u \in holdS,
         writer' \in {t, NoThread, FOR_IO},
         Own(t)',
         ~InCharge(t)' => Unowned'
  PROVE  IInv'
<1>1. ASSUME NEW u \in Thread \ {t} PROVE ~InCharge(u)' /\ Own(u)'
  <2>1. pc[u] = "idle" /\ writer # u /\ Bystander(u)
    BY DEF IInv, InCharge, Own
  <2>2. pc'[u] = "idle" /\ writer' # u /\ Bystander(u)'
    BY <2>1, SuxConstants DEF Bystander
  <2> QED
    BY <2>2 DEF InCharge, Own
<1>2. \A u, v \in Thread : InCharge(u)' /\ InCharge(v)' => u = v
  BY <1>1
<1>3. \A u \in Thread : Own(u)'
  BY <1>1
<1>4. (\A u \in Thread : ~InCharge(u)') => Unowned'
  OBVIOUS
<1> QED
  BY <1>2, <1>3, <1>4 DEF IInv

----------------------------------------------------------------------------
(* Acquiring                                                                 *)

\* What the invariant says of a thread stays true as long as nothing that it
\* speaks of changes.
LEMMA OwnStays ==
  ASSUME NEW u \in Thread, UNCHANGED <<holdW, writer, recursive, slot, io>>,
         pc'[u] = pc[u], memo'[u] = memo[u], u \in holdS' <=> u \in holdS
  PROVE  Own(u)' <=> Own(u)
<1>1. IdleOwner(u)' <=> IdleOwner(u)
  BY DEF IdleOwner, Claim
<1>2. Bystander(u)' <=> Bystander(u)
  BY DEF Bystander
<1>3. Busy(u)' <=> Busy(u)
  BY DEF Busy, Latched, PhysicalHolder
<1> QED
  BY <1>1, <1>2, <1>3 DEF Own

\* An S latch is the business of its thread alone.
LEMMA SLockKeeps ==
  ASSUME IInv, NEW t \in Thread, SLock(t)
  PROVE  IInv'
<1> DEFINE s == Append(memo[t], "S")
<1>1. /\ memo[t] \in Seq(Mode) /\ s \in Seq(Mode) /\ Len(s) = Len(memo[t]) + 1
      /\ Len(s) <= MaxDepth
  BY SuxConstants DEF IInv, TypeOK, SLock, MayLatch, Mode
<1>2. /\ memo' = [memo EXCEPT ![t] = s] /\ holdS' = holdS \cup {t}
      /\ holdW' = holdW /\ t \notin holdS /\ holdW[t] # "X" /\ holdW[FOR_IO] # "X"
      /\ \A i \in DOMAIN memo[t] : memo[t][i] # "S"
      /\ \A i \in DOMAIN memo[t] : memo[t][i] # "X"
      /\ UNCHANGED <<writer, recursive, pc, slot, io>> /\ pc[t] = "idle"
  BY DEF SLock, L!GrantS, MemoPush, Has, MayLatch, Holder
<1> HIDE DEF s
<1>3. TypeOK'
  BY <1>1, <1>2 DEF IInv, TypeOK
<1>4. L!Exclusion'
  BY LatchKeeps DEF IInv, TypeOK, SLock, Holder
<1>5. Own(t)'
  <2>1. CASE writer = t
    <3>1. IdleOwner(t)
      BY <1>2, <2>1 DEF IInv, Own
    <3>2. io # "claimed"
      BY <1>2, <3>1 DEF IdleOwner
    <3>3. CountIn(s, "X") = CountIn(memo[t], "X") /\ CountIn(s, "U") = CountIn(memo[t], "U")
      <4>1. CountIn(memo[t], "X") \in Nat /\ CountIn(memo[t], "U") \in Nat
        BY <1>1, Counts
      <4>2. /\ CountIn(s, "X") = CountIn(memo[t], "X") + 0
            /\ CountIn(s, "U") = CountIn(memo[t], "U") + 0
        BY <1>1, CountPush DEF s, Mode
      <4> QED
        BY <4>1, <4>2
    <3>4. Owning(s, holdW[t])
      <4>1. Owning(memo[t], holdW[t]) /\ holdW[t] = "U"
        BY <1>2, <3>1, <3>2 DEF IdleOwner, IInv, TypeOK, Holder
      <4>2. /\ DOMAIN s = 1 .. Len(memo[t]) + 1 /\ s[Len(memo[t]) + 1] = "S"
            /\ \A i \in 1 .. Len(memo[t]) : s[i] = memo[t][i]
        BY <1>1 DEF s
      <4>3. memo[t] # <<>> /\ s # <<>> /\ Len(memo[t]) \in Nat \ {0}
        BY <1>1, <4>1 DEF s, Owning
      <4>4. s[1] = "U" /\ \A i \in DOMAIN s : s[i] # "X"
        BY <1>1, <1>2, <4>1, <4>2, <4>3 DEF Owning
      <4>5. \A i \in DOMAIN s : s[i] = "S" => i = Len(memo[t]) + 1
        BY <1>1, <1>2, <4>2, <4>3
      <4> QED
        BY <4>1, <4>3, <4>4, <4>5 DEF Owning
    <3>5. memo'[t] = s /\ t \in holdS' /\ holdW'[t] = holdW[t]
      BY <1>2 DEF IInv, TypeOK
    <3>6. IdleOwner(t)'
      BY <1>2, <3>1, <3>2, <3>3, <3>4, <3>5 DEF IdleOwner, Claim
    <3> QED
      BY <1>2, <2>1, <3>6 DEF Own
  <2>2. CASE writer # t
    <3>1. memo[t] = <<>>
      BY <1>2, <2>2 DEF IInv, Own, Bystander
    <3>2. memo'[t] = <<"S">> /\ t \in holdS'
      BY <1>2, <3>1 DEF s, IInv, TypeOK
    <3> QED
      BY <1>2, <2>2, <3>2 DEF Own, Bystander
  <2> QED
    BY <2>1, <2>2
<1>6. ASSUME NEW u \in Thread, u # t PROVE Own(u)'
  <2>1. memo'[u] = memo[u] /\ (u \in holdS' <=> u \in holdS)
    BY <1>2, <1>6 DEF IInv, TypeOK
  <2> QED
    BY <1>2, <2>1, OwnStays DEF IInv
<1>7. /\ \A u \in Thread : InCharge(u)' <=> InCharge(u)
      /\ Unowned' <=> Unowned
  BY <1>2 DEF InCharge, Unowned, Multiplier
<1> QED
  BY <1>3, <1>4, <1>5, <1>6, <1>7 DEF IInv

\* The counter takes another latch of its owner.
LEMMA RecurseKeeps ==
  ASSUME IInv, NEW t \in Thread, NEW mode \in {"U", "X"}, Recurse(t, mode)
  PROVE  IInv'
<1> DEFINE s == Append(memo[t], mode)
<1>1. /\ memo[t] \in Seq(Mode) /\ mode \in Mode /\ s \in Seq(Mode)
      /\ Len(s) = Len(memo[t]) + 1 /\ Len(s) <= MaxDepth
      /\ DOMAIN s = 1 .. Len(memo[t]) + 1 /\ s[Len(memo[t]) + 1] = mode
      /\ \A i \in 1 .. Len(memo[t]) : s[i] = memo[t][i]
  BY SuxConstants DEF IInv, TypeOK, Recurse, MayLatch, Mode
<1>2. /\ memo' = [memo EXCEPT ![t] = s] /\ UNCHANGED <<holdS, holdW, writer, pc, slot, io>>
      /\ pc[t] = "idle" /\ writer = t /\ recursive' = recursive + Multiplier(mode)
      /\ mode = "X" => XCount # 0
  BY DEF Recurse, MemoPush, MayLatch, latch
<1>3. IdleOwner(t) /\ InCharge(t) /\ memo'[t] = s
  BY <1>2 DEF IInv, Own, InCharge, TypeOK
<1>4. /\ CountIn(memo[t], "X") \in Nat /\ CountIn(memo[t], "U") \in Nat
      /\ CountIn(memo[t], "X") <= Len(memo[t])
      /\ CountIn(memo[t], "X") = 0 <=> \A i \in DOMAIN memo[t] : memo[t][i] # "X"
  BY <1>1, Counts
<1>5. /\ CountIn(s, "X") = CountIn(memo[t], "X") + (IF mode = "X" THEN 1 ELSE 0)
      /\ CountIn(s, "U") = CountIn(memo[t], "U") + (IF mode = "U" THEN 1 ELSE 0)
  BY <1>1, CountPush
<1> HIDE DEF s
<1>6. mode = "X" /\ io # "claimed" => holdW[t] = "X"
  <2> SUFFICES ASSUME mode = "X", io # "claimed", holdW[t] # "X" PROVE FALSE
    OBVIOUS
  <2>1. CountIn(memo[t], "X") = 0
    BY <1>3, <1>4 DEF IdleOwner, Owning
  <2>2. recursive = 0 + RECURSIVE_U * CountIn(memo[t], "U")
    BY <1>3, <1>4, <2>1, SuxConstants DEF IdleOwner, Claim
  <2>3. XCount = 0
    <3>1. 0 \in Nat /\ RECURSIVE_U \in Nat /\ 0 < RECURSIVE_U
      BY SuxConstants
    <3>2. (0 + RECURSIVE_U * CountIn(memo[t], "U")) % RECURSIVE_U = 0
      BY <1>4, <3>1, Halves, Zenon
    <3> QED
      BY <2>2, <3>2, Zenon DEF XCount
  <2> QED
    BY <1>2, <2>3
<1>7. recursive' = CountIn(s, "X") + RECURSIVE_U * CountIn(s, "U") + Claim
  <2>1. recursive = CountIn(memo[t], "X") + RECURSIVE_U * CountIn(memo[t], "U") + Claim
    BY <1>3 DEF IdleOwner
  <2>2. CASE mode = "X"
    BY <1>2, <1>4, <1>5, <2>1, <2>2, SuxConstants DEF Multiplier, RECURSIVE_X, Claim
  <2>3. CASE mode = "U"
    <3>1. RECURSIVE_U * (CountIn(memo[t], "U") + 1)
            = RECURSIVE_U * CountIn(memo[t], "U") + RECURSIVE_U
      BY <1>4, SuxConstants
    <3> QED
      <4>1. /\ CountIn(s, "X") = CountIn(memo[t], "X") + 0
            /\ CountIn(s, "U") = CountIn(memo[t], "U") + 1
            /\ recursive' = recursive + RECURSIVE_U /\ Claim \in {0, 1}
        BY <1>2, <1>5, <2>3, SuxConstants DEF Multiplier, Claim
      <4> HIDE <1>1, <1>2, <1>3, <1>5, <1>6
      <4> QED
        BY <1>4, <2>1, <3>1, <4>1, SuxConstants
  <2> QED
    BY <2>2, <2>3
<1>8. TypeOK'
  BY <1>1, <1>2, SuxConstants DEF IInv, TypeOK, Multiplier, RECURSIVE_X
<1>9. L!Exclusion'
  BY LatchKeeps DEF IInv, TypeOK, Recurse, Holder
<1>10. Own(t)'
  <2>0. /\ \A i \in DOMAIN s : (i \in DOMAIN memo[t] /\ s[i] = memo[t][i]) \/ s[i] = mode
        /\ s # <<>> /\ (memo[t] # <<>> => s[1] = memo[t][1])
    BY <1>1
  <2>00. mode # "S"
    OBVIOUS
  <2>1. io = "claimed" => \A i \in DOMAIN s : s[i] # "S"
    BY <1>3, <2>0, <2>00, Zenon DEF IdleOwner
  <2>2. io # "claimed" => /\ Owning(s, holdW[t])
                          /\ \A i \in DOMAIN s : s[i] = "S" => t \in holdS
    <3>1. SUFFICES ASSUME io # "claimed"
                   PROVE  /\ Owning(s, holdW[t])
                          /\ \A i \in DOMAIN s : s[i] = "S" => t \in holdS
      OBVIOUS
    <3>2. /\ Owning(memo[t], holdW[t])
          /\ \A i \in DOMAIN memo[t] : memo[t][i] = "S" => t \in holdS
      BY <1>3, <3>1, Zenon DEF IdleOwner
    <3>3. /\ s # <<>> /\ s[1] = holdW[t]
          /\ \A i \in DOMAIN s : s[i] = "X" => holdW[t] = "X"
      BY <1>6, <2>0, <3>1, <3>2, Zenon DEF Owning
    <3>4. \A i \in DOMAIN s : s[i] = "S" => i \in DOMAIN memo[t] /\ memo[t][i] = "S"
      BY <2>0, <2>00, Zenon
    <3> QED
      BY <3>2, <3>3, <3>4, Zenon DEF Owning
  <2>3. IdleOwner(t)'
    BY <1>2, <1>3, <1>7, <2>1, <2>2, Zenon DEF IdleOwner, Claim
  <2> QED
    BY <1>2, <2>3 DEF Own
<1>11. \A u \in Thread \ {t} : ~InCharge(u)
  BY <1>3 DEF IInv
<1>12. InCharge(t)' /\ writer' = t
  BY <1>2 DEF InCharge
<1>13. \A u \in Thread \ {t} :
          pc'[u] = pc[u] /\ memo'[u] = memo[u] /\ (u \in holdS' <=> u \in holdS)
  BY <1>2 DEF IInv, TypeOK
<1> QED
  BY <1>8, <1>9, <1>10, <1>11, <1>12, <1>13, StepInCharge

\* A grant of U or X puts its thread in charge.
LEMMA FirstLatchKeeps ==
  ASSUME IInv, NEW t \in Thread, NEW mode \in {"U", "X"}, NEW h \in {t, FOR_IO},
         FirstLatch(t, h, mode)
  PROVE  IInv'
<1>1. h \in Holder /\ \A g \in Holder : holdW[g] = "none"
  BY DEF FirstLatch, L!GrantU, L!GrantX, Holder
<1>2. (\A u \in Thread : ~InCharge(u)) /\ Unowned
  BY <1>1, NoCharge
<1>3. io = "none" /\ writer = NoThread /\ recursive = 0
  BY <1>1, <1>2 DEF Unowned, Holder
<1>4. /\ holdW' = [holdW EXCEPT ![h] = mode] /\ holdS' = holdS /\ memo[t] = <<>>
      /\ slot' = [slot EXCEPT ![t] = mode]
      /\ pc' = [pc EXCEPT ![t] = IF h = t THEN "granted" ELSE "granted_io"]
      /\ UNCHANGED <<writer, recursive, memo, io>>
  BY DEF FirstLatch, L!GrantU, L!GrantX, Goto
<1>5. TypeOK'
  BY <1>1, <1>4 DEF IInv, TypeOK, Labels
<1>6. L!Exclusion'
  BY <1>1, LatchKeeps DEF IInv, TypeOK, FirstLatch
<1>7. Own(t)'
  <2>1. holdW'[h] = mode /\ slot'[t] = mode /\ memo'[t] = <<>>
    BY <1>1, <1>4 DEF IInv, TypeOK
  <2>2. pc'[t] = IF h = t THEN "granted" ELSE "granted_io"
    BY <1>4 DEF IInv, TypeOK
  <2> QED
    BY <1>3, <1>4, <2>1, <2>2 DEF Own, Busy, Latched
<1>8. InCharge(t)' /\ writer' = NoThread
  BY <1>3, <1>4 DEF InCharge, IInv, TypeOK
<1>9. \A u \in Thread \ {t} :
          pc'[u] = pc[u] /\ memo'[u] = memo[u] /\ (u \in holdS' <=> u \in holdS)
  BY <1>4 DEF IInv, TypeOK
<1> QED
  BY <1>2, <1>5, <1>6, <1>7, <1>8, <1>9, StepInCharge

\* u_lock() and x_lock() set the counter, from zero, to one latch of the mode that
\* was granted, before any writer is named.
LEMMA SetRecursiveKeeps ==
  ASSUME IInv, NEW t \in Thread, SetRecursive(t)
  PROVE  IInv'
<1>1. /\ pc[t] \in {"granted", "granted_io"} /\ Busy(t) /\ InCharge(t)
      /\ slot[t] \in {"U", "X"}
  BY Zenon DEF SetRecursive, IInv, Own, InCharge, TypeOK, Busy
<1>2. /\ recursive' = Multiplier(slot[t]) /\ UNCHANGED <<holdS, holdW, writer, slot, memo, io>>
      /\ pc' = [pc EXCEPT ![t] = IF pc[t] = "granted" THEN "set_owner" ELSE "set_owner_io"]
  BY Zenon DEF SetRecursive, Goto, latch
<1>3. TypeOK'
  BY <1>2, SuxConstants DEF IInv, TypeOK, Labels, Multiplier, RECURSIVE_X
<1>4. L!Exclusion'
  BY LatchKeeps DEF IInv, TypeOK, SetRecursive, Holder
<1>5. Own(t)'
  <2>1. pc'[t] = IF pc[t] = "granted" THEN "set_owner" ELSE "set_owner_io"
    BY <1>2 DEF IInv, TypeOK
  <2>2. writer = NoThread /\ memo[t] = <<>> /\ io = "none" /\ slot[t] # "none"
    BY <1>1, Zenon DEF Busy, Latched
  <2>3. CASE pc[t] = "granted"
    <3>1. holdW[t] = slot[t] /\ pc'[t] = "set_owner"
      BY <1>1, <2>1, <2>3, Zenon DEF Busy, Latched
    <3> QED
      BY <1>2, <2>2, <3>1, Zenon DEF Own, Busy, Latched
  <2>4. CASE pc[t] = "granted_io"
    <3>1. holdW[FOR_IO] = slot[t] /\ pc'[t] = "set_owner_io"
      BY <1>1, <2>1, <2>4, Zenon DEF Busy, Latched
    <3> QED
      BY <1>2, <2>2, <3>1, Zenon DEF Own, Busy, Latched
  <2> QED
    BY <1>1, <2>3, <2>4
<1>6. InCharge(t)' /\ writer' = NoThread
  BY <1>1, <1>2, Zenon DEF InCharge, IInv, TypeOK, Busy, Latched
<1>7. \A u \in Thread \ {t} :
          /\ ~InCharge(u) /\ pc'[u] = pc[u] /\ memo'[u] = memo[u]
          /\ u \in holdS' <=> u \in holdS
  BY <1>1, <1>2 DEF IInv, TypeOK
<1> QED
  BY <1>3, <1>4, <1>5, <1>6, <1>7, StepInCharge

\* set_first_owner() names the thread, or FOR_IO, and the first entry is in its memo:
\* from here on the owner holds exactly one latch, or page I/O does.
LEMMA SetFirstOwnerKeeps ==
  ASSUME IInv, NEW t \in Thread, SetFirstOwner(t)
  PROVE  IInv'
<1> DEFINE m == slot[t]
<1>1. /\ pc[t] \in {"set_owner", "set_owner_io"} /\ Busy(t) /\ InCharge(t)
      /\ m \in {"U", "X"} /\ memo[t] = <<>> /\ recursive = Multiplier(m)
      /\ io = "none"
      /\ holdW[IF pc[t] = "set_owner" THEN t ELSE FOR_IO] = m
  BY Zenon DEF SetFirstOwner, IInv, Own, InCharge, TypeOK, Busy, Latched
<1>2. /\ UNCHANGED <<holdS, holdW, recursive>>
      /\ slot' = [slot EXCEPT ![t] = "none"] /\ pc' = [pc EXCEPT ![t] = "idle"]
      /\ pc[t] = "set_owner" =>
            writer' = t /\ memo' = [memo EXCEPT ![t] = <<m>>] /\ io' = io
      /\ pc[t] = "set_owner_io" => writer' = FOR_IO /\ io' = m /\ memo' = memo
  BY <1>1 DEF SetFirstOwner, Goto, latch, MemoPush
<1>3. <<m>> \in Seq(Mode) /\ Len(<<m>>) = 1 /\ DOMAIN <<m>> = {1} /\ <<m>>[1] = m
  BY <1>1, OneEntry, Zenon DEF Mode
<1>4. TypeOK'
  <2>1. pc' \in [Thread -> Labels] /\ slot' \in [Thread -> {"none", "U", "X"}]
    BY <1>2 DEF IInv, TypeOK, Labels
  <2>2. memo' \in [Thread -> Seq(Mode)] /\ \A u \in Thread : Len(memo'[u]) <= MaxDepth
    <3>1. \/ memo' = memo
          \/ memo' = [memo EXCEPT ![t] = <<m>>]
      BY <1>1, <1>2
    <3>2. Len(<<m>>) <= MaxDepth
      BY <1>3, SuxConstants
    <3> HIDE DEF m
    <3> QED
      BY <1>3, <3>1, <3>2, Zenon DEF IInv, TypeOK
  <2>3. writer' \in Owner /\ io' \in {"none", "U", "X", "claimed"}
    BY <1>1, <1>2 DEF Owner
  <2> QED
    BY <1>2, <2>1, <2>2, <2>3, Zenon DEF IInv, TypeOK
<1>5. L!Exclusion'
  BY LatchKeeps DEF IInv, TypeOK, SetFirstOwner, Holder
<1>6. ASSUME pc[t] = "set_owner" PROVE Own(t)' /\ InCharge(t)'
  <2>1. pc'[t] = "idle" /\ writer' = t /\ memo'[t] = <<m>> /\ io' = "none" /\ holdW'[t] = m
    BY <1>1, <1>2, <1>6 DEF IInv, TypeOK
  <2>2. /\ CountIn(<<m>>, "X") = IF m = "X" THEN 1 ELSE 0
        /\ CountIn(<<m>>, "U") = IF m = "U" THEN 1 ELSE 0
    BY <1>1, CountOne DEF Mode
  <2>3. recursive' = CountIn(<<m>>, "X") + RECURSIVE_U * CountIn(<<m>>, "U") + 0
    BY <1>1, <1>2, <2>2, SuxConstants DEF Multiplier, RECURSIVE_X
  <2>4. Owning(<<m>>, m)
    BY <1>1, <1>3 DEF Owning
  <2>5. IdleOwner(t)'
    BY <1>1, <1>3, <2>1, <2>3, <2>4, ZenonT(40) DEF IdleOwner, Claim
  <2> QED
    BY <2>1, <2>5, Zenon DEF Own, InCharge
<1>7. ASSUME pc[t] = "set_owner_io" PROVE Own(t)' /\ Unowned'
  <2>1. pc'[t] = "idle" /\ writer' = FOR_IO /\ memo'[t] = <<>> /\ io' = m /\ holdW'[FOR_IO] = m
    BY <1>1, <1>2, <1>7 DEF IInv, TypeOK
  <2> QED
    BY <1>1, <1>2, <2>1, SuxConstants DEF Own, Bystander, Unowned, Multiplier
<1>8. \A u \in Thread \ {t} :
          /\ ~InCharge(u) /\ pc'[u] = pc[u] /\ memo'[u] = memo[u]
          /\ u \in holdS' <=> u \in holdS
  BY <1>1, <1>2 DEF IInv, TypeOK
<1>9. /\ Own(t)' /\ (~InCharge(t)' => Unowned') /\ writer' \in {t, NoThread, FOR_IO}
  <2>1. Own(t)'
    BY <1>1, <1>6, <1>7
  <2>2. writer' \in {t, NoThread, FOR_IO}
    BY <1>1, <1>2
  <2>3. ~InCharge(t)' => Unowned'
    BY <1>1, <1>6, <1>7
  <2> QED
    BY <2>1, <2>2, <2>3
<1> QED
  BY <1>4, <1>5, <1>8, <1>9, StepInCharge


----------------------------------------------------------------------------
(* Conversions of the mode *)

\* What the memo becomes when all its entries change their mode.
LEMMA AllOfMode ==
  ASSUME NEW s \in Seq(Mode), NEW m \in Mode
  PROVE  /\ [i \in DOMAIN s |-> m] \in Seq(Mode)
         /\ Len([i \in DOMAIN s |-> m]) = Len(s)
         /\ \A i \in DOMAIN [j \in DOMAIN s |-> m] : [j \in DOMAIN s |-> m][i] = m
         /\ s # <<>> => [i \in DOMAIN s |-> m] # <<>> /\ [i \in DOMAIN s |-> m][1] = m
         /\ Len(s) = 1 => [i \in DOMAIN s |-> m] = <<m>>
  OBVIOUS

\* u_x_upgrade() raises the inner latch while the counter still has only U latches.
LEMMA UXUpgradeKeeps ==
  ASSUME IInv, NEW t \in Thread, UXUpgrade(t)
  PROVE  IInv'
<1>1. /\ pc[t] = "idle" /\ writer = t /\ memo[t] \in Seq(Mode) /\ memo[t] # <<>>
      /\ holdW[t] = "U" /\ holdW' = [holdW EXCEPT ![t] = "X"] /\ holdS' = holdS
      /\ pc' = [pc EXCEPT ![t] = "upgraded"]
      /\ UNCHANGED <<writer, recursive, slot, memo, io>>
      /\ \A i \in DOMAIN memo[t] : memo[t][i] # "S"
  BY DEF UXUpgrade, L!UpgradeU, Goto, Has, IInv, TypeOK
<1>2. holdW[FOR_IO] = "none"
  BY <1>1, SuxConstants DEF IInv, L!Exclusion, Holder
<1>3. IdleOwner(t) /\ InCharge(t)
  BY <1>1 DEF IInv, Own, InCharge
<1>4. io = "none" /\ \A i \in DOMAIN memo[t] : memo[t][i] = "U"
  BY <1>1, <1>2, <1>3 DEF IdleOwner, Owning, Mode
<1>5. recursive = RECURSIVE_U * Len(memo[t])
  <2>1. CountIn(memo[t], "U") = Len(memo[t]) /\ CountIn(memo[t], "X") = 0
    BY <1>1, <1>4, CountAll, Zenon
  <2> QED
    BY <1>1, <1>3, <1>4, <2>1, SuxConstants DEF IdleOwner, Claim
<1>6. TypeOK'
  BY <1>1, Zenon DEF IInv, TypeOK, Labels
<1>7. L!Exclusion'
  BY LatchKeeps DEF IInv, TypeOK, UXUpgrade, Holder
<1>8. pc'[t] = "upgraded" /\ holdW'[t] = "X" /\ memo'[t] = memo[t]
  BY <1>1 DEF IInv, TypeOK, Holder
<1>9. Own(t)' /\ InCharge(t)'
  BY <1>1, <1>4, <1>5, <1>8, Zenon DEF Own, Busy, Latched, InCharge
<1>10. \A u \in Thread \ {t} :
          /\ ~InCharge(u) /\ pc'[u] = pc[u] /\ memo'[u] = memo[u]
          /\ u \in holdS' <=> u \in holdS
  BY <1>1, <1>3 DEF IInv, TypeOK
<1> QED
  BY <1>1, <1>6, <1>7, <1>9, <1>10, StepInCharge, Zenon

\* u_x_upgrade() then divides the counter: every U latch of the owner becomes X.
LEMMA UXUpgradedKeeps ==
  ASSUME IInv, NEW t \in Thread, UXUpgraded(t)
  PROVE  IInv'
<1> DEFINE s == [i \in DOMAIN memo[t] |-> "X"]
<1>1. /\ pc[t] = "upgraded" /\ Busy(t) /\ InCharge(t) /\ memo[t] \in Seq(Mode)
      /\ Len(memo[t]) <= MaxDepth
  BY DEF UXUpgraded, IInv, Own, InCharge, TypeOK
<1>2. /\ recursive = RECURSIVE_U * Len(memo[t]) /\ writer = t /\ holdW[t] = "X"
      /\ io = "none" /\ memo[t] # <<>>
  BY <1>1, Zenon DEF Busy, Latched
<1>3. /\ recursive' = recursive \div RECURSIVE_U /\ memo' = [memo EXCEPT ![t] = s]
      /\ pc' = [pc EXCEPT ![t] = "idle"] /\ UNCHANGED <<holdS, holdW, writer, slot, io>>
  BY DEF UXUpgraded, AllTo, Goto, latch
<1>4. recursive' = Len(memo[t])
  <2>1. recursive = 0 + RECURSIVE_U * Len(memo[t]) /\ Len(memo[t]) \in Nat
    BY <1>1, <1>2, SuxConstants
  <2>2. (0 + RECURSIVE_U * Len(memo[t])) \div RECURSIVE_U = Len(memo[t])
    <3>1. RECURSIVE_U \in Nat /\ 0 < RECURSIVE_U
      BY SuxConstants
    <3> QED
      BY <2>1, <3>1, Halves, Zenon
  <2> QED
    BY <1>3, <2>1, <2>2
<1>5. /\ s \in Seq(Mode) /\ Len(s) = Len(memo[t]) /\ \A i \in DOMAIN s : s[i] = "X"
      /\ s # <<>> /\ s[1] = "X"
  BY <1>1, <1>2, AllOfMode DEF Mode
<1> HIDE DEF s
<1>6. CountIn(s, "X") = Len(s) /\ CountIn(s, "U") = 0
  BY <1>5, CountAll, Zenon
<1>7. TypeOK'
  BY <1>1, <1>3, <1>4, <1>5 DEF IInv, TypeOK, Labels
<1>8. L!Exclusion'
  BY LatchKeeps DEF IInv, TypeOK, UXUpgraded, Holder
<1>9. pc'[t] = "idle" /\ memo'[t] = s
  BY <1>3 DEF IInv, TypeOK
<1>10. recursive' = CountIn(s, "X") + RECURSIVE_U * CountIn(s, "U") + 0
  BY <1>1, <1>4, <1>5, <1>6, SuxConstants
<1>11. Owning(s, "X")
  BY <1>5 DEF Owning
<1>12. IdleOwner(t)'
  BY <1>2, <1>3, <1>5, <1>9, <1>10, <1>11 DEF IdleOwner, Claim
<1>13. Own(t)' /\ InCharge(t)' /\ writer' = t
  BY <1>2, <1>3, <1>9, <1>12 DEF Own, InCharge
<1>14. \A u \in Thread \ {t} :
          /\ ~InCharge(u) /\ pc'[u] = pc[u] /\ memo'[u] = memo[u]
          /\ u \in holdS' <=> u \in holdS
  BY <1>1, <1>3 DEF IInv, TypeOK
<1> QED
  BY <1>7, <1>8, <1>13, <1>14, StepInCharge

\* x_u_downgrade() of an only X latch makes it a U latch in the counter first.
LEMMA XUDowngradeKeeps ==
  ASSUME IInv, NEW t \in Thread, XUDowngrade(t)
  PROVE  IInv'
<1>1. /\ pc[t] = "idle" /\ writer = t /\ memo[t] = <<"X">> /\ holdW[t] = "X"
      /\ recursive' = recursive * RECURSIVE_U /\ pc' = [pc EXCEPT ![t] = "downgrade"]
      /\ UNCHANGED <<holdS, holdW, writer, slot, memo, io>>
  BY DEF XUDowngrade, Goto, latch
<1>2. holdW[FOR_IO] = "none"
  BY <1>1, SuxConstants DEF IInv, TypeOK, L!Exclusion, Holder
<1>3. IdleOwner(t) /\ InCharge(t)
  BY <1>1 DEF IInv, Own, InCharge
<1>4. io = "none" /\ recursive' = RECURSIVE_U
  <2>1. CountIn(<<"X">>, "X") = 1 /\ CountIn(<<"X">>, "U") = 0
    BY CountOne DEF Mode
  <2>2. io = "none"
    BY <1>2, <1>3 DEF IdleOwner
  <2>3. recursive = 1
    BY <1>1, <1>3, <2>1, <2>2, SuxConstants DEF IdleOwner, Claim
  <2> QED
    BY <1>1, <2>2, <2>3, SuxConstants
<1>5. TypeOK'
  BY <1>1, <1>4, SuxConstants DEF IInv, TypeOK, Labels
<1>6. L!Exclusion'
  BY LatchKeeps DEF IInv, TypeOK, XUDowngrade, Holder
<1>7. pc'[t] = "downgrade"
  BY <1>1 DEF IInv, TypeOK
<1>8. Own(t)' /\ InCharge(t)'
  BY <1>1, <1>4, <1>7, Zenon DEF Own, Busy, Latched, InCharge
<1>9. \A u \in Thread \ {t} :
          /\ ~InCharge(u) /\ pc'[u] = pc[u] /\ memo'[u] = memo[u]
          /\ u \in holdS' <=> u \in holdS
  BY <1>1, <1>3 DEF IInv, TypeOK
<1> QED
  BY <1>1, <1>5, <1>6, <1>8, <1>9, StepInCharge, Zenon

\* An idle owner of one latch.
LEMMA OneLatch ==
  ASSUME NEW t \in Thread, NEW m \in {"U", "X"},
         pc'[t] = "idle", writer' = t, memo'[t] = <<m>>, io' = "none",
         holdW'[t] = m, recursive' = Multiplier(m)
  PROVE  Own(t)' /\ InCharge(t)'
<1>1. /\ CountIn(<<m>>, "X") = IF m = "X" THEN 1 ELSE 0
      /\ CountIn(<<m>>, "U") = IF m = "U" THEN 1 ELSE 0
  BY CountOne DEF Mode
<1>2. recursive' = CountIn(<<m>>, "X") + RECURSIVE_U * CountIn(<<m>>, "U") + 0
  BY <1>1, SuxConstants DEF Multiplier, RECURSIVE_X
<1>3. Owning(<<m>>, m) /\ DOMAIN <<m>> = {1} /\ <<m>>[1] = m
  BY DEF Owning
<1>4. IdleOwner(t)'
  BY <1>2, <1>3 DEF IdleOwner, Claim
<1> QED
  BY <1>4 DEF Own, InCharge

\* x_u_downgrade() then lowers the inner latch to what the counter says.
LEMMA XUDowngradedKeeps ==
  ASSUME IInv, NEW t \in Thread, XUDowngraded(t)
  PROVE  IInv'
<1>1. /\ pc[t] = "downgrade" /\ Busy(t) /\ InCharge(t)
      /\ recursive = RECURSIVE_U /\ writer = t /\ memo[t] = <<"X">> /\ io = "none"
  BY Zenon DEF XUDowngraded, IInv, Own, InCharge, Busy, Latched
<1>2. /\ holdW' = [holdW EXCEPT ![t] = "U"] /\ holdS' = holdS
      /\ memo' = [memo EXCEPT ![t] = <<"U">>] /\ pc' = [pc EXCEPT ![t] = "idle"]
      /\ UNCHANGED <<writer, recursive, slot, io>>
  <2>1. [i \in DOMAIN memo[t] |-> "U"] = <<"U">>
    BY <1>1
  <2> QED
    BY <2>1, Zenon DEF XUDowngraded, L!DowngradeX, AllTo, Goto
<1>3. TypeOK'
  <2>1. <<"U">> \in Seq(Mode) /\ Len(<<"U">>) <= MaxDepth
    BY SuxConstants DEF Mode
  <2> QED
    BY <1>2, <2>1, Zenon DEF IInv, TypeOK, Labels
<1>4. L!Exclusion'
  BY LatchKeeps DEF IInv, TypeOK, XUDowngraded, Holder
<1>5. pc'[t] = "idle" /\ memo'[t] = <<"U">> /\ holdW'[t] = "U" /\ recursive' = Multiplier("U")
  BY <1>1, <1>2 DEF IInv, TypeOK, Holder, Multiplier
<1>6. Own(t)' /\ InCharge(t)'
  BY <1>1, <1>2, <1>5, OneLatch
<1>7. \A u \in Thread \ {t} :
          /\ ~InCharge(u) /\ pc'[u] = pc[u] /\ memo'[u] = memo[u]
          /\ u \in holdS' <=> u \in holdS
  BY <1>1, <1>2 DEF IInv, TypeOK
<1> QED
  BY <1>1, <1>2, <1>3, <1>4, <1>6, <1>7, StepInCharge

\* u_s_downgrade() of an only U latch takes it off the counter first.
LEMMA USDowngradeKeeps ==
  ASSUME IInv, NEW t \in Thread, USDowngrade(t)
  PROVE  IInv'
<1>1. /\ pc[t] = "idle" /\ writer = t /\ memo[t] = <<"U">> /\ recursive = RECURSIVE_U
      /\ recursive' = 0 /\ pc' = [pc EXCEPT ![t] = "u_s_owner"]
      /\ UNCHANGED <<holdS, holdW, writer, slot, memo, io>>
  BY DEF USDowngrade, Goto, latch
<1>2. IdleOwner(t) /\ InCharge(t)
  BY <1>1, Zenon DEF IInv, Own, InCharge
<1>3. io # "claimed"
  <2>1. CountIn(<<"U">>, "X") = 0 /\ CountIn(<<"U">>, "U") = 1
    BY CountOne DEF Mode
  <2> QED
    BY <1>1, <1>2, <2>1, SuxConstants DEF IdleOwner, Claim
<1>4. io = "none" /\ holdW[t] = "U"
  BY <1>1, <1>2, <1>3 DEF IdleOwner, Owning
<1>5. TypeOK'
  BY <1>1 DEF IInv, TypeOK, Labels
<1>6. L!Exclusion'
  BY LatchKeeps DEF IInv, TypeOK, USDowngrade, Holder
<1>7. pc'[t] = "u_s_owner"
  BY <1>1 DEF IInv, TypeOK
<1>8. Own(t)' /\ InCharge(t)'
  BY <1>1, <1>4, <1>7, Zenon DEF Own, Busy, Latched, InCharge
<1>9. \A u \in Thread \ {t} :
          /\ ~InCharge(u) /\ pc'[u] = pc[u] /\ memo'[u] = memo[u]
          /\ u \in holdS' <=> u \in holdS
  BY <1>1, <1>2 DEF IInv, TypeOK
<1> QED
  BY <1>1, <1>5, <1>6, <1>8, <1>9, StepInCharge, Zenon

\* u_s_downgrade() then erases the writer, while the inner latch is still U.
LEMMA USOwnerKeeps ==
  ASSUME IInv, NEW t \in Thread, USOwner(t)
  PROVE  IInv'
<1>1. /\ pc[t] = "u_s_owner" /\ Busy(t) /\ InCharge(t)
      /\ recursive = 0 /\ memo[t] = <<"U">> /\ io = "none" /\ holdW[t] = "U"
  BY Zenon DEF USOwner, IInv, Own, InCharge, Busy, Latched
<1>2. /\ writer' = NoThread /\ pc' = [pc EXCEPT ![t] = "u_s_latch"]
      /\ UNCHANGED <<holdS, holdW, recursive, slot, memo, io>>
  BY DEF USOwner, Goto, latch
<1>3. TypeOK'
  BY <1>1, <1>2, SuxConstants DEF IInv, TypeOK, Labels, Owner
<1>4. L!Exclusion'
  BY LatchKeeps DEF IInv, TypeOK, USOwner, Holder
<1>5. pc'[t] = "u_s_latch"
  BY <1>2 DEF IInv, TypeOK
<1>6. Own(t)' /\ InCharge(t)'
  BY <1>1, <1>2, <1>5, Zenon DEF Own, Busy, Latched, InCharge
<1>7. \A u \in Thread \ {t} :
          /\ ~InCharge(u) /\ pc'[u] = pc[u] /\ memo'[u] = memo[u]
          /\ u \in holdS' <=> u \in holdS
  BY <1>1, <1>2 DEF IInv, TypeOK
<1> QED
  BY <1>1, <1>2, <1>3, <1>4, <1>6, <1>7, StepInCharge, Zenon

\* u_s_downgrade() ends with an S latch, and no thread is in charge any more.
LEMMA USDowngradedKeeps ==
  ASSUME IInv, NEW t \in Thread, USDowngraded(t)
  PROVE  IInv'
<1>1. /\ pc[t] = "u_s_latch" /\ Busy(t) /\ InCharge(t)
      /\ recursive = 0 /\ writer = NoThread /\ memo[t] = <<"U">> /\ io = "none"
  BY Zenon DEF USDowngraded, IInv, Own, InCharge, Busy, Latched
<1>2. /\ holdW' = [holdW EXCEPT ![t] = "none"] /\ holdS' = holdS \cup {t}
      /\ memo' = [memo EXCEPT ![t] = <<"S">>] /\ pc' = [pc EXCEPT ![t] = "idle"]
      /\ UNCHANGED <<writer, recursive, slot, io>>
  <2>1. [i \in DOMAIN memo[t] |-> "S"] = <<"S">>
    BY <1>1
  <2> QED
    BY <2>1, ZenonT(40) DEF USDowngraded, L!DowngradeU, AllTo, Goto
<1>3. TypeOK'
  <2>1. <<"S">> \in Seq(Mode) /\ Len(<<"S">>) <= MaxDepth
    BY SuxConstants DEF Mode
  <2> QED
    BY <1>2, <2>1, Zenon DEF IInv, TypeOK, Labels
<1>4. L!Exclusion'
  BY LatchKeeps DEF IInv, TypeOK, USDowngraded, Holder
<1>5. pc'[t] = "idle" /\ memo'[t] = <<"S">> /\ t \in holdS'
  BY <1>2 DEF IInv, TypeOK
<1>6. Own(t)' /\ Unowned'
  BY <1>1, <1>2, <1>5, SuxConstants DEF Own, Bystander, Unowned
<1>7. \A u \in Thread \ {t} :
          /\ ~InCharge(u) /\ pc'[u] = pc[u] /\ memo'[u] = memo[u]
          /\ u \in holdS' <=> u \in holdS
  BY <1>1, <1>2 DEF IInv, TypeOK
<1> QED
  BY <1>1, <1>2, <1>3, <1>4, <1>6, <1>7, StepInCharge

\* s_x_upgrade_try() gets U beside its own S latch, and nobody else was in charge.
LEMMA SXUpgradeKeeps ==
  ASSUME IInv, NEW t \in Thread, SXUpgrade(t)
  PROVE  IInv'
<1>1. /\ pc[t] = "idle" /\ memo[t] = <<"S">> /\ \A h \in Holder : holdW[h] = "none"
      /\ holdW' = [holdW EXCEPT ![t] = "U"] /\ holdS' = holdS
      /\ pc' = [pc EXCEPT ![t] = "s_x_owner"]
      /\ UNCHANGED <<writer, recursive, slot, memo, io>>
  BY DEF SXUpgrade, L!GrantU, Goto
<1>2. (\A u \in Thread : ~InCharge(u)) /\ Unowned
  BY <1>1, NoCharge, Zenon
<1>3. io = "none" /\ writer = NoThread /\ recursive = 0
  BY <1>1, <1>2, Zenon DEF Unowned, Holder
<1>4. TypeOK'
  BY <1>1, Zenon DEF IInv, TypeOK, Labels
<1>5. L!Exclusion'
  BY LatchKeeps DEF IInv, TypeOK, SXUpgrade, Holder
<1>6. pc'[t] = "s_x_owner" /\ holdW'[t] = "U"
  BY <1>1 DEF IInv, TypeOK, Holder
<1>7. Own(t)' /\ InCharge(t)'
  BY <1>1, <1>3, <1>6, Zenon DEF Own, Busy, Latched, InCharge
<1>8. \A u \in Thread \ {t} :
          pc'[u] = pc[u] /\ memo'[u] = memo[u] /\ (u \in holdS' <=> u \in holdS)
  BY <1>1 DEF IInv, TypeOK
<1> QED
  BY <1>1, <1>2, <1>3, <1>4, <1>5, <1>7, <1>8, StepInCharge, Zenon

\* s_x_upgrade_try() names its thread the writer before it gives its S latch up.
LEMMA SXOwnerKeeps ==
  ASSUME IInv, NEW t \in Thread, SXOwner(t)
  PROVE  IInv'
<1>1. /\ pc[t] = "s_x_owner" /\ Busy(t) /\ InCharge(t)
      /\ recursive = 0 /\ memo[t] = <<"S">> /\ io = "none" /\ holdW[t] = "U"
  BY Zenon DEF SXOwner, IInv, Own, InCharge, Busy, Latched
<1>2. /\ writer' = t /\ pc' = [pc EXCEPT ![t] = "s_x_unlock"]
      /\ UNCHANGED <<holdS, holdW, recursive, slot, memo, io>>
  BY DEF SXOwner, Goto, latch
<1>3. TypeOK'
  BY <1>1, <1>2, SuxConstants DEF IInv, TypeOK, Labels, Owner
<1>4. L!Exclusion'
  BY LatchKeeps DEF IInv, TypeOK, SXOwner, Holder
<1>5. pc'[t] = "s_x_unlock"
  BY <1>2 DEF IInv, TypeOK
<1>6. Own(t)' /\ InCharge(t)'
  BY <1>1, <1>2, <1>5, Zenon DEF Own, Busy, Latched, InCharge
<1>7. \A u \in Thread \ {t} :
          /\ ~InCharge(u) /\ pc'[u] = pc[u] /\ memo'[u] = memo[u]
          /\ u \in holdS' <=> u \in holdS
  BY <1>1, <1>2 DEF IInv, TypeOK
<1> QED
  BY <1>1, <1>2, <1>3, <1>4, <1>6, <1>7, StepInCharge, Zenon

\* s_x_upgrade_try() releases its S latch and keeps U, so no other writer gets in.
LEMMA SXUnlockKeeps ==
  ASSUME IInv, NEW t \in Thread, SXUnlock(t)
  PROVE  IInv'
<1>1. /\ pc[t] = "s_x_unlock" /\ Busy(t) /\ InCharge(t)
      /\ recursive = 0 /\ writer = t /\ memo[t] = <<"S">> /\ io = "none" /\ holdW[t] = "U"
  BY Zenon DEF SXUnlock, IInv, Own, InCharge, Busy, Latched
<1>2. /\ holdS' = holdS \ {t} /\ holdW' = holdW /\ pc' = [pc EXCEPT ![t] = "s_x_upgrade"]
      /\ UNCHANGED <<writer, recursive, slot, memo, io>>
  BY DEF SXUnlock, L!ReleaseS, Goto
<1>3. TypeOK'
  BY <1>1, <1>2, SuxConstants, Zenon DEF IInv, TypeOK, Labels, Owner
<1>4. L!Exclusion'
  BY LatchKeeps DEF IInv, TypeOK, SXUnlock, Holder
<1>5. pc'[t] = "s_x_upgrade"
  BY <1>2 DEF IInv, TypeOK
<1>6. Own(t)' /\ InCharge(t)'
  BY <1>1, <1>2, <1>5, Zenon DEF Own, Busy, Latched, InCharge
<1>7. \A u \in Thread \ {t} :
          /\ ~InCharge(u) /\ pc'[u] = pc[u] /\ memo'[u] = memo[u]
          /\ u \in holdS' <=> u \in holdS
  BY <1>1, <1>2 DEF IInv, TypeOK
<1> QED
  BY <1>1, <1>2, <1>3, <1>4, <1>6, <1>7, StepInCharge, Zenon

\* s_x_upgrade_try() raises U to X once the readers are gone.
LEMMA SXUpgradedKeeps ==
  ASSUME IInv, NEW t \in Thread, SXUpgraded(t)
  PROVE  IInv'
<1>1. /\ pc[t] = "s_x_upgrade" /\ Busy(t) /\ InCharge(t)
      /\ recursive = 0 /\ writer = t /\ memo[t] = <<"S">> /\ io = "none" /\ holdW[t] = "U"
  BY Zenon DEF SXUpgraded, IInv, Own, InCharge, Busy, Latched
<1>2. /\ holdW' = [holdW EXCEPT ![t] = "X"] /\ holdS' = holdS
      /\ pc' = [pc EXCEPT ![t] = "s_x_recursive"]
      /\ UNCHANGED <<writer, recursive, slot, memo, io>>
  BY DEF SXUpgraded, L!UpgradeU, Goto
<1>3. TypeOK'
  BY <1>1, <1>2, SuxConstants, Zenon DEF IInv, TypeOK, Labels, Owner
<1>4. L!Exclusion'
  BY LatchKeeps DEF IInv, TypeOK, SXUpgraded, Holder
<1>5. pc'[t] = "s_x_recursive" /\ holdW'[t] = "X"
  BY <1>2 DEF IInv, TypeOK, Holder
<1>6. Own(t)' /\ InCharge(t)'
  BY <1>1, <1>2, <1>5, Zenon DEF Own, Busy, Latched, InCharge
<1>7. \A u \in Thread \ {t} :
          /\ ~InCharge(u) /\ pc'[u] = pc[u] /\ memo'[u] = memo[u]
          /\ u \in holdS' <=> u \in holdS
  BY <1>1, <1>2 DEF IInv, TypeOK
<1> QED
  BY <1>1, <1>2, <1>3, <1>4, <1>6, <1>7, StepInCharge, Zenon

\* s_x_upgrade_try() ends with one X latch in the counter and in the memo.
LEMMA SXRecursiveKeeps ==
  ASSUME IInv, NEW t \in Thread, SXRecursive(t)
  PROVE  IInv'
<1>1. /\ pc[t] = "s_x_recursive" /\ Busy(t) /\ InCharge(t)
      /\ recursive = 0 /\ writer = t /\ memo[t] = <<"S">> /\ io = "none" /\ holdW[t] = "X"
  BY Zenon DEF SXRecursive, IInv, Own, InCharge, Busy, Latched
<1>2. /\ recursive' = RECURSIVE_X /\ memo' = [memo EXCEPT ![t] = <<"X">>]
      /\ pc' = [pc EXCEPT ![t] = "idle"] /\ UNCHANGED <<holdS, holdW, writer, slot, io>>
  <2>1. [i \in DOMAIN memo[t] |-> "X"] = <<"X">>
    BY <1>1
  <2> QED
    BY <2>1, Zenon DEF SXRecursive, AllTo, Goto, latch
<1>3. TypeOK'
  <2>1. <<"X">> \in Seq(Mode) /\ Len(<<"X">>) <= MaxDepth
    BY SuxConstants DEF Mode
  <2> QED
    BY <1>2, <2>1 DEF IInv, TypeOK, Labels, RECURSIVE_X
<1>4. L!Exclusion'
  BY LatchKeeps DEF IInv, TypeOK, SXRecursive, Holder
<1>5. pc'[t] = "idle" /\ memo'[t] = <<"X">> /\ recursive' = Multiplier("X")
  BY <1>2 DEF IInv, TypeOK, Multiplier
<1>6. Own(t)' /\ InCharge(t)'
  BY <1>1, <1>2, <1>5, OneLatch
<1>7. \A u \in Thread \ {t} :
          /\ ~InCharge(u) /\ pc'[u] = pc[u] /\ memo'[u] = memo[u]
          /\ u \in holdS' <=> u \in holdS
  BY <1>1, <1>2 DEF IInv, TypeOK
<1> QED
  BY <1>1, <1>2, <1>3, <1>4, <1>6, <1>7, StepInCharge

----------------------------------------------------------------------------
(* Releasing                                                                 *)

\* s_unlock() of the newest entry: it leaves U and X alone, whether its thread or
\* another one is in charge.
LEMMA ReleaseSKeeps ==
  ASSUME IInv, NEW t \in Thread, Release(t), memo[t][Len(memo[t])] = "S"
  PROVE  IInv'
<1> DEFINE s == memo[t]
           r == SubSeq(s, 1, Len(s) - 1)
<1>1. /\ s \in Seq(Mode) /\ s # <<>> /\ pc[t] = "idle" /\ Len(s) <= MaxDepth
      /\ memo' = [memo EXCEPT ![t] = r] /\ holdS' = holdS \ {t} /\ holdW' = holdW
      /\ UNCHANGED <<writer, recursive, pc, slot, io>>
  BY DEF Release, MemoPop, L!ReleaseS, IInv, TypeOK
<1>2. /\ r \in Seq(Mode) /\ Len(r) = Len(s) - 1 /\ s = Append(r, "S")
      /\ \A i \in 1 .. Len(s) - 1 : r[i] = s[i]
  BY <1>1, Pop
<1> HIDE DEF s, r
<1>3. TypeOK'
  <2>1. Len(s) \in Nat /\ Len(r) <= MaxDepth
    BY <1>1, <1>2, SuxConstants
  <2>2. memo' \in [Thread -> Seq(Mode)] /\ \A u \in Thread : Len(memo'[u]) <= MaxDepth
    BY <1>1, <1>2, <2>1 DEF IInv, TypeOK
  <2> QED
    BY <1>1, <2>2 DEF IInv, TypeOK
<1>4. L!Exclusion'
  BY LatchKeeps DEF IInv, TypeOK, Release, Holder
<1>5. Own(t)'
  <2>1. memo'[t] = r /\ s = memo[t] /\ s[Len(s)] = "S" /\ Len(s) \in Nat \ {0}
    BY <1>1 DEF s, IInv, TypeOK
  <2>2. CASE writer = t
    <3>1. IdleOwner(t)
      BY <1>1, <2>2 DEF IInv, Own
    <3>2. io = "none" /\ Owning(s, holdW[t]) /\ holdW[t] = "U"
      BY <1>1, <2>1, <3>1 DEF IdleOwner, Owning
    <3>3. CountIn(r, "X") = CountIn(s, "X") /\ CountIn(r, "U") = CountIn(s, "U")
      <4>1. CountIn(r, "X") \in Nat /\ CountIn(r, "U") \in Nat
        BY <1>2, Counts
      <4>2. /\ CountIn(Append(r, "S"), "X") = CountIn(r, "X") + 0
            /\ CountIn(Append(r, "S"), "U") = CountIn(r, "U") + 0
        BY <1>2, CountPush DEF Mode
      <4> QED
        BY <1>2, <4>1, <4>2
    <3>4. Len(s) # 1
      BY <2>1, <3>2 DEF Owning
    <3>5. r # <<>> /\ DOMAIN r = 1 .. Len(s) - 1 /\ DOMAIN s = 1 .. Len(s)
      BY <1>1, <1>2, <2>1, <3>4
    <3>6. \A i \in DOMAIN r : r[i] # "S" /\ r[i] # "X"
      BY <1>2, <2>1, <3>2, <3>5 DEF Owning
    <3>7. Owning(r, "U")
      BY <1>2, <2>1, <3>2, <3>4, <3>5, <3>6 DEF Owning
    <3>8. IdleOwner(t)'
      BY <1>1, <2>1, <3>1, <3>2, <3>3, <3>6, <3>7, Zenon DEF IdleOwner, Claim
    <3> QED
      BY <1>1, <2>2, <3>8 DEF Own
  <2>3. CASE writer # t
    <3>1. s = <<"S">>
      BY <1>1, <2>1, <2>3, Zenon DEF IInv, Own, Bystander
    <3>2. r = <<>>
      BY <1>2, <3>1
    <3> QED
      BY <1>1, <2>1, <2>3, <3>2 DEF Own, Bystander
  <2> QED
    BY <2>2, <2>3
<1>6. ASSUME NEW u \in Thread, u # t PROVE Own(u)'
  <2>1. memo'[u] = memo[u] /\ (u \in holdS' <=> u \in holdS)
    BY <1>1, <1>6 DEF IInv, TypeOK
  <2> QED
    BY <1>1, <2>1, OwnStays DEF IInv
<1>7. /\ \A u \in Thread : InCharge(u)' <=> InCharge(u)
      /\ Unowned' <=> Unowned
  BY <1>1 DEF InCharge, Unowned, Multiplier
<1> QED
  BY <1>3, <1>4, <1>5, <1>6, <1>7, Zenon DEF IInv

\* u_or_x_unlock() of the newest entry: the counter loses it, and reaches zero only
\* when it was the only one and names the mode of the inner latch.
LEMMA ReleaseWKeeps ==
  ASSUME IInv, NEW t \in Thread, Release(t), memo[t][Len(memo[t])] # "S"
  PROVE  IInv'
<1> DEFINE s == memo[t]
           r == SubSeq(s, 1, Len(s) - 1)
           m == s[Len(s)]
<1>1. /\ s \in Seq(Mode) /\ s # <<>> /\ pc[t] = "idle" /\ Len(s) <= MaxDepth
      /\ memo' = [memo EXCEPT ![t] = r] /\ UNCHANGED <<holdS, holdW, writer, io>>
      /\ recursive' = recursive - Multiplier(m)
      /\ slot' = [slot EXCEPT ![t] = IF recursive' = 0 THEN m ELSE "none"]
      /\ pc' = [pc EXCEPT ![t] = IF recursive' = 0 THEN "clear_owner" ELSE "idle"]
  BY Zenon DEF Release, MemoPop, Unlock, Goto, latch, IInv, TypeOK
<1>2. /\ r \in Seq(Mode) /\ Len(r) = Len(s) - 1 /\ s = Append(r, m) /\ m \in {"U", "X"}
      /\ \A i \in 1 .. Len(s) - 1 : r[i] = s[i]
  BY <1>1, Pop, Zenon DEF Mode
<1>3. s = memo[t] /\ m = s[Len(s)] /\ Len(s) \in Nat \ {0}
  BY <1>1
<1>4. /\ CountIn(r, "X") \in Nat /\ CountIn(r, "U") \in Nat
      /\ CountIn(r, "X") = 0 <=> \A i \in DOMAIN r : r[i] # "X"
      /\ CountIn(r, "U") = 0 <=> \A i \in DOMAIN r : r[i] # "U"
  BY <1>2, Counts, Zenon
<1>5. /\ CountIn(s, "X") = CountIn(r, "X") + (IF m = "X" THEN 1 ELSE 0)
      /\ CountIn(s, "U") = CountIn(r, "U") + (IF m = "U" THEN 1 ELSE 0)
  <2>1. m \in Mode
    BY <1>2 DEF Mode
  <2> HIDE DEF r, m, s
  <2> QED
    BY <1>2, <2>1, CountPush, ZenonT(40)
<1> HIDE DEF s, r, m
<1>6. writer = t /\ IdleOwner(t) /\ InCharge(t)
  <2>1. writer = t
    BY <1>1, <1>2, <1>3 DEF IInv, Own, Bystander
  <2> QED
    BY <1>1, <2>1 DEF IInv, Own, InCharge
<1>7. recursive' = CountIn(r, "X") + RECURSIVE_U * CountIn(r, "U") + Claim
  <2>1. recursive = CountIn(s, "X") + RECURSIVE_U * CountIn(s, "U") + Claim
    BY <1>3, <1>6, Zenon DEF IdleOwner
  <2>2. CASE m = "X"
    <3>1. recursive' = recursive - 1 /\ RECURSIVE_U * CountIn(r, "U") \in Nat
      BY <1>1, <1>4, <2>2, SuxConstants DEF Multiplier, RECURSIVE_X
    <3>2. recursive = CountIn(r, "X") + 1 + RECURSIVE_U * CountIn(r, "U") + Claim
      <4>1. CountIn(s, "U") = CountIn(r, "U") /\ CountIn(s, "X") = CountIn(r, "X") + 1
        BY <1>4, <1>5, <2>2
      <4> QED
        BY <2>1, <4>1
    <3> QED
      BY <1>4, <3>1, <3>2 DEF Claim
  <2>3. CASE m = "U"
    <3>1. RECURSIVE_U * (CountIn(r, "U") + 1)
            = RECURSIVE_U * CountIn(r, "U") + RECURSIVE_U
      BY <1>4, SuxConstants
    <3> QED
      <4>1. /\ recursive' = recursive - RECURSIVE_U
            /\ RECURSIVE_U \in Nat /\ RECURSIVE_U * CountIn(r, "U") \in Nat
        BY <1>1, <1>4, <2>3, SuxConstants DEF Multiplier
      <4>2. CountIn(s, "U") = CountIn(r, "U") + 1 /\ CountIn(s, "X") = CountIn(r, "X")
        BY <1>4, <1>5, <2>3
      <4>3. recursive = CountIn(r, "X") + (RECURSIVE_U * CountIn(r, "U") + RECURSIVE_U) + Claim
        BY <2>1, <3>1, <4>2
      <4>4. Claim \in Nat
        BY DEF Claim
      <4> DEFINE x == CountIn(r, "X")
                 p == RECURSIVE_U * CountIn(r, "U")
      <4>5. /\ x \in Nat /\ p \in Nat /\ RECURSIVE_U \in Nat
            /\ recursive' = recursive - RECURSIVE_U
            /\ recursive = x + (p + RECURSIVE_U) + Claim
        BY <1>4, <4>1, <4>3
      <4> HIDE DEF x, p
      <4>6. recursive' = x + p + Claim
        BY <4>4, <4>5
      <4> QED
        BY <4>6 DEF x, p
  <2> QED
    BY <1>2, <2>2, <2>3
<1>8. RECURSIVE_U * CountIn(r, "U") \in Nat
  BY <1>4, SuxConstants
<1>9. TypeOK'
  <2>1. recursive' \in Nat
    BY <1>4, <1>7, <1>8 DEF Claim
  <2>2. Len(s) \in Nat /\ Len(r) <= MaxDepth
    BY <1>1, <1>2, SuxConstants
  <2>3. memo' \in [Thread -> Seq(Mode)] /\ \A u \in Thread : Len(memo'[u]) <= MaxDepth
    BY <1>1, <1>2, <2>2, Zenon DEF IInv, TypeOK
  <2> QED
    BY <1>1, <1>2, <2>1, <2>3, Zenon DEF IInv, TypeOK, Labels
<1>10. L!Exclusion'
  BY <1>1, LatchKeeps, Zenon DEF IInv, TypeOK, Holder, latch
<1>11. /\ memo'[t] = r
       /\ slot'[t] = IF recursive' = 0 THEN m ELSE "none"
       /\ pc'[t] = IF recursive' = 0 THEN "clear_owner" ELSE "idle"
  BY <1>1 DEF IInv, TypeOK
<1>12. io # "claimed" =>
         /\ io = "none" /\ s[1] = holdW[t] /\ holdW[t] \in {"U", "X"}
         /\ holdW[FOR_IO] = "none" /\ Owning(s, holdW[t])
         /\ \A i \in DOMAIN s : s[i] = "S" => t \in holdS
  BY <1>3, <1>6, SuxConstants, ZenonT(40) DEF IdleOwner, Owning, IInv, TypeOK, L!Exclusion, Holder
<1>13. ASSUME recursive' = 0 PROVE Own(t)'
  <2>1. CountIn(r, "X") = 0 /\ CountIn(r, "U") = 0 /\ io # "claimed"
    <3>1. CountIn(r, "X") = 0 /\ RECURSIVE_U * CountIn(r, "U") = 0 /\ Claim = 0
      BY <1>4, <1>7, <1>8, <1>13 DEF Claim
    <3>2. CountIn(r, "U") = 0
      BY <1>4, <3>1, SuxConstants
    <3> QED
      BY <3>1, <3>2 DEF Claim
  <2>2. Len(s) = 1
    <3>0. SUFFICES ASSUME Len(s) # 1 PROVE FALSE
      OBVIOUS
    <3>1. Len(r) \in Nat \ {0} /\ 1 \in 1 .. Len(s) - 1
      <4>1. Len(s) \in Nat /\ Len(s) # 0 /\ Len(s) # 1
        BY <1>3, <3>0
      <4>2. \A n \in Nat : n # 0 /\ n # 1 => n - 1 \in Nat \ {0} /\ 1 \in 1 .. n - 1
        OBVIOUS
      <4> QED
        BY <1>2, <4>1, <4>2
    <3>2. 1 \in DOMAIN r /\ r[1] = s[1]
      BY <1>2, <3>1
    <3> QED
      BY <1>4, <1>12, <2>1, <3>2, Zenon
  <2>3. r = <<>> /\ holdW[t] = m
    BY <1>2, <1>3, <1>12, <2>1, <2>2
  <2>4. memo'[t] = <<>> /\ slot'[t] = m /\ pc'[t] = "clear_owner"
    BY <1>11, <1>13, <2>3, Zenon
  <2>5. holdW'[FOR_IO] = "none" /\ holdW'[t] = m /\ io' = "none" /\ m # "none"
        /\ writer' \in {t, FOR_IO}
    BY <1>1, <1>2, <1>6, <1>12, <2>1, <2>3, Zenon
  <2>6. PhysicalHolder(t)' = t
    BY <2>5, Zenon DEF PhysicalHolder
  <2> QED
    BY <1>13, <2>4, <2>5, <2>6, Zenon DEF Own, Busy, Latched
<1>14. ASSUME recursive' # 0 PROVE Own(t)'
  <2>1. ASSUME io = "claimed" PROVE \A i \in DOMAIN r : r[i] # "S"
    BY <1>2, <1>3, <1>6, <2>1 DEF IdleOwner
  <2>2. ASSUME io # "claimed"
        PROVE  Owning(r, holdW[t]) /\ \A i \in DOMAIN r : r[i] = "S" => t \in holdS
    <3>1. r # <<>>
      <4>1. SUFFICES ASSUME r = <<>> PROVE FALSE
        OBVIOUS
      <4>2. CountIn(r, "X") = 0 /\ CountIn(r, "U") = 0
        BY <4>1, CountOne
      <4> QED
        BY <1>7, <1>14, <2>2, <4>2, SuxConstants DEF Claim
    <3>2. DOMAIN r = 1 .. Len(s) - 1 /\ DOMAIN s = 1 .. Len(s) /\ Len(s) > 1
      BY <1>1, <1>2, <1>3, <3>1
    <3>3. DOMAIN r \subseteq DOMAIN s /\ 1 \in DOMAIN r /\ \A i \in DOMAIN r : r[i] = s[i]
      BY <1>2, <1>3, <3>2
    <3> QED
      BY <1>12, <2>2, <3>1, <3>3, ZenonT(40) DEF Owning
  <2>3. IdleOwner(t)'
    BY <1>1, <1>6, <1>7, <1>11, <1>12, <2>1, <2>2, Zenon DEF IdleOwner, Claim
  <2> QED
    BY <1>1, <1>6, <1>11, <1>14, <2>3 DEF Own
<1>15. InCharge(t)' /\ writer' = t
  BY <1>1, <1>6 DEF InCharge
<1>16. \A u \in Thread \ {t} :
          /\ ~InCharge(u) /\ pc'[u] = pc[u] /\ memo'[u] = memo[u]
          /\ u \in holdS' <=> u \in holdS
  BY <1>1, <1>6, Zenon DEF IInv, TypeOK
<1> QED
  BY <1>9, <1>10, <1>13, <1>14, <1>15, <1>16, StepInCharge, Zenon

\* u_or_x_unlock() erases the writer while the inner latch is still held.
LEMMA ClearOwnerKeeps ==
  ASSUME IInv, NEW t \in Thread, ClearOwner(t)
  PROVE  IInv'
<1>1. /\ pc[t] = "clear_owner" /\ Busy(t) /\ InCharge(t)
      /\ slot[t] # "none" /\ recursive = 0 /\ memo[t] = <<>> /\ io = "none"
      /\ holdW[PhysicalHolder(t)] = slot[t]
  BY Zenon DEF ClearOwner, IInv, Own, InCharge, Busy, Latched
<1>2. /\ writer' = NoThread /\ pc' = [pc EXCEPT ![t] = "unlock"]
      /\ UNCHANGED <<holdS, holdW, recursive, slot, memo, io>>
  BY DEF ClearOwner, Goto, latch
<1>3. TypeOK'
  BY <1>2 DEF IInv, TypeOK, Labels, Owner
<1>4. L!Exclusion'
  BY LatchKeeps, Zenon DEF IInv, TypeOK, ClearOwner, Holder
<1>5. pc'[t] = "unlock"
  BY <1>2 DEF IInv, TypeOK
<1>6. Own(t)' /\ InCharge(t)'
  BY <1>1, <1>2, <1>5, Zenon DEF Own, Busy, Latched, InCharge, PhysicalHolder
<1>7. \A u \in Thread \ {t} :
          /\ ~InCharge(u) /\ pc'[u] = pc[u] /\ memo'[u] = memo[u]
          /\ u \in holdS' <=> u \in holdS
  BY <1>1, <1>2, Zenon DEF IInv, TypeOK
<1> QED
  BY <1>2, <1>3, <1>4, <1>6, <1>7, StepInCharge

\* u_or_x_unlock() releases the inner latch, and no thread is in charge any more.
LEMMA UnlockLatchKeeps ==
  ASSUME IInv, NEW t \in Thread, UnlockLatch(t)
  PROVE  IInv'
<1>1. /\ pc[t] = "unlock" /\ Busy(t) /\ InCharge(t) /\ PhysicalHolder(t) \in Holder
      /\ recursive = 0 /\ writer = NoThread /\ memo[t] = <<>> /\ io = "none"
  BY Zenon DEF UnlockLatch, IInv, Own, InCharge, Busy, Latched, PhysicalHolder, Holder
<1>2. /\ holdW' = [holdW EXCEPT ![PhysicalHolder(t)] = "none"] /\ holdS' = holdS
      /\ slot' = [slot EXCEPT ![t] = "none"] /\ pc' = [pc EXCEPT ![t] = "idle"]
      /\ UNCHANGED <<writer, recursive, memo, io>>
  BY DEF UnlockLatch, L!ReleaseW, Goto
<1>3. TypeOK'
  BY <1>1, <1>2, Zenon DEF IInv, TypeOK, Labels
<1>4. L!Exclusion'
  BY <1>1, LatchKeeps, Zenon DEF IInv, TypeOK, UnlockLatch
<1>5. pc'[t] = "idle"
  BY <1>2 DEF IInv, TypeOK
<1>6. Own(t)' /\ Unowned'
  BY <1>1, <1>2, <1>5, SuxConstants, Zenon DEF Own, Bystander, Unowned
<1>7. \A u \in Thread \ {t} :
          /\ ~InCharge(u) /\ pc'[u] = pc[u] /\ memo'[u] = memo[u]
          /\ u \in holdS' <=> u \in holdS
  BY <1>1, <1>2, Zenon DEF IInv, TypeOK
<1> QED
  BY <1>1, <1>2, <1>3, <1>4, <1>6, <1>7, StepInCharge, Zenon

----------------------------------------------------------------------------
(* Page I/O                                                                  *)

\* claim_ownership() makes the thread the owner of the X latch of a page read.
LEMMA ClaimOwnershipKeeps ==
  ASSUME IInv, NEW t \in Thread, ClaimOwnership(t)
  PROVE  IInv'
<1>1. /\ memo[t] = <<>> /\ io = "X" /\ writer' = t /\ io' = "claimed"
      /\ pc' = [pc EXCEPT ![t] = "claimed"]
      /\ UNCHANGED <<holdS, holdW, recursive, slot, memo>>
  BY DEF ClaimOwnership, Goto, latch
<1>2. (\A u \in Thread : ~InCharge(u)) /\ Unowned
  BY <1>1, NoCharge
<1>3. recursive = RECURSIVE_X /\ holdW[FOR_IO] = "X"
  BY <1>1, <1>2 DEF Unowned, Multiplier
<1>4. TypeOK'
  BY <1>1, Zenon DEF IInv, TypeOK, Labels, Owner
<1>5. L!Exclusion'
  BY LatchKeeps, Zenon DEF IInv, TypeOK, ClaimOwnership, Holder
<1>6. pc'[t] = "claimed"
  BY <1>1 DEF IInv, TypeOK
<1>7. Own(t)' /\ InCharge(t)'
  BY <1>1, <1>3, <1>6, Zenon DEF Own, Busy, InCharge
<1>8. \A u \in Thread \ {t} :
          pc'[u] = pc[u] /\ memo'[u] = memo[u] /\ (u \in holdS' <=> u \in holdS)
  BY <1>1, Zenon DEF IInv, TypeOK
<1> QED
  BY <1>1, <1>2, <1>4, <1>5, <1>7, <1>8, StepInCharge, ZenonT(40)

\* x_lock_recursive() after claim_ownership() counts a second X latch.
LEMMA XLockRecursiveKeeps ==
  ASSUME IInv, NEW t \in Thread, XLockRecursive(t)
  PROVE  IInv'
<1>1. /\ pc[t] = "claimed" /\ Busy(t) /\ InCharge(t)
      /\ writer = t /\ recursive = RECURSIVE_X /\ io = "claimed"
      /\ holdW[FOR_IO] = "X" /\ memo[t] = <<>>
  BY Zenon DEF XLockRecursive, IInv, Own, InCharge, Busy
<1>2. /\ recursive' = recursive + RECURSIVE_X /\ memo' = [memo EXCEPT ![t] = <<"X">>]
      /\ pc' = [pc EXCEPT ![t] = "idle"] /\ UNCHANGED <<holdS, holdW, writer, slot, io>>
  <2>1. Append(<<>>, "X") = <<"X">>
    OBVIOUS
  <2> QED
    BY <1>1, <2>1, Zenon DEF XLockRecursive, MemoPush, Goto, latch
<1>3. TypeOK'
  <2>1. <<"X">> \in Seq(Mode) /\ Len(<<"X">>) <= MaxDepth
    BY SuxConstants DEF Mode
  <2> QED
    BY <1>1, <1>2, <2>1 DEF IInv, TypeOK, Labels, RECURSIVE_X
<1>4. L!Exclusion'
  BY LatchKeeps, Zenon DEF IInv, TypeOK, XLockRecursive, Holder
<1>5. pc'[t] = "idle" /\ memo'[t] = <<"X">>
  BY <1>2, Zenon DEF IInv, TypeOK
<1>6. Own(t)' /\ InCharge(t)'
  <2>1. CountIn(<<"X">>, "X") = 1 /\ CountIn(<<"X">>, "U") = 0
    BY CountOne DEF Mode
  <2>2. recursive' = 1 + RECURSIVE_U * 0 + 1
    BY <1>1, <1>2, SuxConstants DEF RECURSIVE_X
  <2>3. IdleOwner(t)'
    BY <1>1, <1>2, <1>5, <2>1, <2>2 DEF IdleOwner, Claim
  <2> QED
    BY <1>1, <1>2, <1>5, <2>3, Zenon DEF Own, InCharge
<1>7. \A u \in Thread \ {t} :
          /\ ~InCharge(u) /\ pc'[u] = pc[u] /\ memo'[u] = memo[u]
          /\ u \in holdS' <=> u \in holdS
  BY <1>1, <1>2, Zenon DEF IInv, TypeOK
<1> QED
  BY <1>1, <1>2, <1>3, <1>4, <1>6, <1>7, StepInCharge, Zenon

\* The end of page I/O takes its latch off the counter; it was the only one, so the
\* release of the inner latch, in the mode of the I/O, follows.
LEMMA IoCompleteKeeps ==
  ASSUME IInv, NEW t \in Thread, IoComplete(t)
  PROVE  IInv'
<1> DEFINE m == IF io = "U" THEN "U" ELSE "X"
<1>1. /\ pc[t] = "idle" /\ memo[t] = <<>> /\ io' = "none"
      /\ io \in {"U", "X"} \/ (io = "claimed" /\ writer = t)
      /\ recursive' = recursive - Multiplier(m)
      /\ slot' = [slot EXCEPT ![t] = IF recursive' = 0 THEN m ELSE "none"]
      /\ pc' = [pc EXCEPT ![t] = IF recursive' = 0 THEN "clear_owner" ELSE "idle"]
      /\ UNCHANGED <<holdS, holdW, writer, memo>>
  BY Zenon DEF IoComplete, Unlock, Goto, latch
<1>2. /\ \A u \in Thread \ {t} : ~InCharge(u)
      /\ holdW[FOR_IO] = m /\ recursive = Multiplier(m) /\ writer \in {t, FOR_IO}
  <2>1. CASE io \in {"U", "X"}
    <3>1. (\A u \in Thread : ~InCharge(u)) /\ Unowned
      BY <2>1, NoCharge
    <3> QED
      BY <2>1, <3>1 DEF Unowned
  <2>2. CASE io = "claimed" /\ writer = t
    <3>1. IdleOwner(t) /\ InCharge(t)
      BY <1>1, <2>2, Zenon DEF IInv, Own, InCharge
    <3>2. CountIn(<<>>, "X") = 0 /\ CountIn(<<>>, "U") = 0
      BY CountOne, Zenon
    <3>3. recursive = 1 /\ holdW[FOR_IO] = "X"
      <4>1. Claim = 1
        BY <2>2, Zenon DEF Claim
      <4>2. recursive = 0 + RECURSIVE_U * 0 + 1 /\ holdW[FOR_IO] = "X"
        BY <1>1, <2>2, <3>1, <3>2, <4>1, Zenon DEF IdleOwner
      <4>3. 0 + RECURSIVE_U * 0 + 1 = 1
        BY SuxConstants
      <4> QED
        BY <4>2, <4>3, Zenon
    <3> QED
      BY <2>2, <3>1, <3>3 DEF IInv, Multiplier, RECURSIVE_X
  <2> QED
    BY <1>1, <2>1, <2>2, Zenon
<1>3. m \in {"U", "X"} /\ recursive' = 0
  BY <1>1, <1>2, SuxConstants DEF Multiplier, RECURSIVE_X
<1> HIDE DEF m
<1>4. TypeOK'
  BY <1>1, <1>3 DEF IInv, TypeOK, Labels
<1>5. L!Exclusion'
  BY <1>1, LatchKeeps, Zenon DEF IInv, TypeOK, Holder, latch
<1>6. pc'[t] = "clear_owner" /\ slot'[t] = m /\ memo'[t] = <<>>
  BY <1>1, <1>3 DEF IInv, TypeOK
<1>7. Own(t)' /\ InCharge(t)' /\ writer' \in {t, NoThread, FOR_IO}
  BY <1>1, <1>2, <1>3, <1>6, Zenon DEF Own, Busy, Latched, InCharge, PhysicalHolder
<1>8. \A u \in Thread \ {t} :
          pc'[u] = pc[u] /\ memo'[u] = memo[u] /\ (u \in holdS' <=> u \in holdS)
  BY <1>1, Zenon DEF IInv, TypeOK
<1> QED
  BY <1>2, <1>4, <1>5, <1>7, <1>8, StepInCharge, Zenon

----------------------------------------------------------------------------
(* The theorems                                                              *)

\* A latch that is created by sux_lock::init() satisfies the invariant.
LEMMA InitHolds ==
  ASSUME Init
  PROVE  IInv
<1>1. /\ holdS = {} /\ holdW = [h \in Holder |-> "none"]
      /\ writer = NoThread /\ recursive = 0 /\ io = "none"
      /\ \A t \in Thread : pc[t] = "idle" /\ memo[t] = <<>>
  BY DEF Init, L!Init
<1>2. TypeOK
  <2>1. <<>> \in Seq(Mode) /\ Len(<<>>) <= MaxDepth
    BY SuxConstants
  <2>2. memo \in [Thread -> Seq(Mode)] /\ \A t \in Thread : Len(memo[t]) <= MaxDepth
    BY <2>1 DEF Init
  <2> QED
    BY <1>1, <2>2 DEF Init, TypeOK, Labels, Owner
<1>3. L!Exclusion
  BY <1>1 DEF L!Exclusion
<1>4. \A t \in Thread : ~InCharge(t) /\ Own(t)
  BY <1>1, SuxConstants, Zenon DEF InCharge, Own, Bystander
<1> QED
  BY <1>1, <1>2, <1>3, <1>4, Zenon DEF IInv, Unowned

\* Every step of every operation of sux_lock keeps the invariant.
LEMMA StepKeeps ==
  ASSUME IInv, [Next]_vars
  PROVE  IInv'
<1>1. ASSUME NEW t \in Thread, Acquire(t) PROVE IInv'
  <2>1. ASSUME NEW mode \in {"U", "X"}, UOrXLock(t, mode) \/ LatchForIO(t, mode)
        PROVE  IInv'
    BY <2>1, FirstLatchKeeps DEF UOrXLock, LatchForIO
  <2> QED
    BY <1>1, <2>1, SLockKeeps, RecurseKeeps, SetRecursiveKeeps, SetFirstOwnerKeeps
       DEF Acquire
<1>2. ASSUME NEW t \in Thread, Convert(t) PROVE IInv'
  BY <1>2, UXUpgradeKeeps, UXUpgradedKeeps, XUDowngradeKeeps, XUDowngradedKeeps,
     USDowngradeKeeps, USOwnerKeeps, USDowngradedKeeps, SXUpgradeKeeps, SXOwnerKeeps,
     SXUnlockKeeps, SXUpgradedKeeps, SXRecursiveKeeps, ZenonT(40) DEF Convert
<1>3. ASSUME NEW t \in Thread, Give(t) PROVE IInv'
  BY <1>3, ReleaseSKeeps, ReleaseWKeeps, ClearOwnerKeeps, UnlockLatchKeeps, Zenon DEF Give
<1>4. ASSUME NEW t \in Thread, PageIO(t) PROVE IInv'
  BY <1>4, ClaimOwnershipKeeps, XLockRecursiveKeeps, IoCompleteKeeps DEF PageIO
<1>5. ASSUME UNCHANGED vars PROVE IInv'
  <2>1. UNCHANGED <<holdS, holdW, writer, recursive, pc, slot, memo, io>>
    BY <1>5 DEF vars, latch
  <2>2. TypeOK' /\ L!Exclusion'
    BY <2>1, Zenon DEF IInv, TypeOK, L!Exclusion
  <2>3. \A t \in Thread : (InCharge(t)' <=> InCharge(t)) /\ (Own(t)' <=> Own(t))
    BY <2>1, OwnStays, Zenon DEF InCharge
  <2>4. Unowned' <=> Unowned
    BY <2>1 DEF Unowned, Multiplier
  <2> QED
    BY <2>2, <2>3, <2>4 DEF IInv
<1> QED
  BY <1>1, <1>2, <1>3, <1>4, <1>5 DEF Next

\* In every reachable state at most one thread is in charge of the latch, and the
\* counter, the inner latch and the memos are what its operation has left.
THEOREM Invariance == Spec => []IInv
<1>1. Init => IInv
  BY InitHolds
<1>2. IInv /\ [Next]_vars => IInv'
  BY StepKeeps
<1> QED
  BY <1>1, <1>2, PTL DEF Spec

\* The inner latch of an idle owner, and the low half of the counter.
LEMMA LowHalf ==
  ASSUME IInv, NEW t \in Thread, pc[t] = "idle", writer = t
  PROVE  XCount # 0 <=> holdW[PhysicalHolder(t)] = "X"
<1> DEFINE cX == CountIn(memo[t], "X")
           cU == CountIn(memo[t], "U")
<1>1. /\ IdleOwner(t) /\ memo[t] \in Seq(Mode) /\ Len(memo[t]) \in Nat
      /\ Len(memo[t]) <= MaxDepth
  BY DEF IInv, TypeOK, Own
<1>2. /\ cX \in Nat /\ cU \in Nat /\ cX <= Len(memo[t])
      /\ cX = 0 <=> \A i \in DOMAIN memo[t] : memo[t][i] # "X"
  BY <1>1, Counts, Zenon
<1>3. recursive = (cX + Claim) + RECURSIVE_U * cU
  <2>1. recursive = cX + RECURSIVE_U * cU + Claim
    BY <1>1, Zenon DEF IdleOwner
  <2>2. RECURSIVE_U * cU \in Nat /\ Claim \in Nat
    BY <1>2, SuxConstants DEF Claim
  <2> DEFINE p == RECURSIVE_U * cU
  <2> HIDE DEF p, cX
  <2> QED
    BY <1>2, <2>1, <2>2 DEF p
<1>4. cX + Claim \in Nat /\ cX + Claim < RECURSIVE_U /\ RECURSIVE_U \in Nat
  <2> HIDE DEF cX
  <2> QED
    BY <1>1, <1>2, SuxConstants DEF Claim
<1>5. XCount = cX + Claim
  <2> HIDE DEF cX, cU
  <2> QED
    BY <1>2, <1>3, <1>4, Halves, Zenon DEF XCount
<1>6. CASE io = "claimed"
  <2>1. holdW[PhysicalHolder(t)] = "X"
    BY <1>1, <1>6, Zenon DEF IdleOwner, PhysicalHolder
  <2>2. cX + Claim # 0
    <3> HIDE DEF cX
    <3> QED
      BY <1>2, <1>6 DEF Claim
  <2> QED
    BY <1>5, <2>1, <2>2
<1>7. CASE io # "claimed"
  <2>1. XCount = cX
    <3> HIDE DEF cX
    <3> QED
      BY <1>2, <1>5, <1>7 DEF Claim
  <2>2. holdW[t] \in {"U", "X"} /\ Owning(memo[t], holdW[t]) /\ holdW[FOR_IO] = "none"
    BY <1>1, <1>7, SuxConstants, Zenon DEF IdleOwner, IInv, TypeOK, L!Exclusion, Holder
  <2>3. cX # 0 <=> holdW[t] = "X"
    <3>1. 1 \in DOMAIN memo[t] /\ memo[t][1] = holdW[t]
      <4>1. memo[t] # <<>> /\ memo[t][1] = holdW[t] /\ memo[t] \in Seq(Mode)
        BY <1>1, <2>2, Zenon DEF Owning, IInv, TypeOK
      <4> QED
        BY <4>1, FirstEntry, Zenon
    <3> QED
      BY <1>2, <2>2, <3>1, Zenon DEF Owning
  <2> QED
    BY <2>1, <2>2, <2>3 DEF PhysicalHolder
<1> QED
  BY <1>6, <1>7

\* have_u_or_x(), have_x() and have_u_not_x() answer rightly whenever a thread may
\* call them, for any number of threads and any depth of recursion.
THEOREM OwnerRight == Spec => []OwnerIsRight
<1>1. IInv => OwnerIsRight
  <2> SUFFICES ASSUME IInv, NEW t \in Thread, pc[t] = "idle"
               PROVE  /\ writer = t <=> Has(t, "U") \/ Has(t, "X") \/ Claimed(t)
                      /\ writer = t => (XCount # 0 <=> holdW[PhysicalHolder(t)] = "X")
    BY DEF OwnerIsRight
  <2>1. ASSUME writer = t PROVE Has(t, "U") \/ Has(t, "X") \/ Claimed(t)
    <3>1. IdleOwner(t)
      BY <2>1 DEF IInv, Own
    <3>2. CASE io = "claimed"
      BY <2>1, <3>2 DEF Claimed
    <3>3. CASE io # "claimed"
      <4>1. holdW[t] \in {"U", "X"} /\ memo[t] # <<>> /\ memo[t][1] = holdW[t]
        BY <3>1, <3>3, Zenon DEF IdleOwner, Owning, IInv, TypeOK, Holder
      <4>2. 1 \in DOMAIN memo[t]
        BY <4>1 DEF IInv, TypeOK
      <4> QED
        BY <4>1, <4>2 DEF Has
    <3> QED
      BY <3>2, <3>3, Zenon
  <2>2. ASSUME writer # t PROVE ~Has(t, "U") /\ ~Has(t, "X") /\ ~Claimed(t)
    BY <2>2, BystanderHas, Zenon DEF IInv, Own, Claimed
  <2> QED
    BY <2>1, <2>2, LowHalf
<1> QED
  BY <1>1, Invariance, PTL

\* recursive counts the U and X latches of the owner and neither half of the word
\* overflows, as long as no mini-transaction latches a page RECURSIVE_MAX times.
THEOREM RecursiveRight == Spec => []RecursiveCounts
<1>1. ASSUME IInv PROVE recursive \in 0 .. RECURSIVE_U * RECURSIVE_U - 1
  <2> DEFINE R == RECURSIVE_U
  <2>1. R \in Nat /\ 3 <= R /\ MaxDepth \in Nat /\ MaxDepth <= R - 2
    BY SuxConstants
  <2>2. \A x, n \in Nat : x <= R - 1 /\ n <= R - 1 => x + R * n \in 0 .. R * R - 1
    <3> SUFFICES ASSUME NEW x \in Nat, NEW n \in Nat, x <= R - 1, n <= R - 1
                 PROVE  x + R * n \in 0 .. R * R - 1
      OBVIOUS
    <3> HIDE DEF R
    <3>1. R * n <= R * (R - 1) /\ R * n \in Nat /\ R * R \in Nat
      BY <2>1, SMTT(20)
    <3>2. R * (R - 1) = R * R - R
      BY <2>1
    <3> QED
      BY <2>1, <3>1, <3>2
  <2>3. \A n \in Nat : n <= R - 1 => R * n \in 0 .. R * R - 1
    <3> SUFFICES ASSUME NEW n \in Nat, n <= R - 1 PROVE R * n \in 0 .. R * R - 1
      OBVIOUS
    <3> HIDE DEF R
    <3>1. 0 + R * n \in 0 .. R * R - 1 /\ R * n \in Nat
      BY <2>1, <2>2
    <3> QED
      BY <3>1
  <2>4. {0, 1, R} \subseteq 0 .. R * R - 1
    <3> HIDE DEF R
    <3>1. R * 0 \in 0 .. R * R - 1 /\ R * 1 \in 0 .. R * R - 1 /\ 1 + R * 0 \in 0 .. R * R - 1
      BY <2>1, <2>2, <2>3
    <3>2. R * 0 = 0 /\ R * 1 = R /\ 1 + R * 0 = 1
      BY <2>1
    <3> QED
      BY <3>1, <3>2
  <2>5. ASSUME NEW t \in Thread, pc[t] # "idle"
        PROVE  recursive \in {0, 1, R} \/ recursive = R * Len(memo[t])
    BY <1>1, <2>5, ZenonT(40) DEF IInv, TypeOK, Own, Labels, Busy, Latched, Multiplier, RECURSIVE_X
  <2>6. ASSUME NEW t \in Thread, pc[t] = "idle", writer = t
        PROVE  recursive \in 0 .. R * R - 1
    <3> DEFINE cX == CountIn(memo[t], "X")
               cU == CountIn(memo[t], "U")
    <3>1. /\ IdleOwner(t) /\ memo[t] \in Seq(Mode) /\ Len(memo[t]) \in Nat
          /\ Len(memo[t]) <= MaxDepth
      BY <1>1, <2>6 DEF IInv, TypeOK, Own
    <3>2. cX \in Nat /\ cU \in Nat /\ cX <= Len(memo[t]) /\ cU <= Len(memo[t])
      BY <3>1, Counts, Zenon
    <3>3. recursive = cX + R * cU + Claim /\ R * cU \in Nat /\ Claim \in {0, 1}
      <4>1. recursive = cX + RECURSIVE_U * cU + Claim
        BY <3>1, Zenon DEF IdleOwner
      <4>2. Claim \in {0, 1}
        BY DEF Claim
      <4> HIDE DEF cX, cU
      <4> QED
        BY <2>1, <3>2, <4>1, <4>2
    <3> HIDE DEF cX, cU, R
    <3>4. cX + Claim \in Nat /\ cX + Claim <= R - 1 /\ cU <= R - 1
      BY <2>1, <3>1, <3>2, <3>3
    <3>5. (cX + Claim) + R * cU \in 0 .. R * R - 1
      BY <2>2, <3>2, <3>4, Zenon
    <3> DEFINE p == R * cU
    <3>6. cX + p + Claim = (cX + Claim) + p
      <4>1. p \in Nat
        BY <3>3
      <4> HIDE DEF p
      <4> QED
        BY <3>2, <3>3, <4>1
    <3> QED
      BY <3>3, <3>5, <3>6
  <2>7. ASSUME \A t \in Thread : ~InCharge(t) PROVE recursive \in {0, 1, R}
    BY <1>1, <2>7 DEF IInv, Unowned, Multiplier, RECURSIVE_X
  <2>8. ASSUME NEW t \in Thread, pc[t] # "idle" PROVE recursive \in 0 .. R * R - 1
    <3>1. Len(memo[t]) \in Nat /\ Len(memo[t]) <= MaxDepth
      BY <1>1 DEF IInv, TypeOK
    <3> HIDE DEF R
    <3>2. Len(memo[t]) <= R - 1
      BY <2>1, <3>1
    <3> QED
      BY <2>3, <2>4, <2>5, <2>8, <3>1, <3>2, Zenon
  <2> HIDE DEF R
  <2>9. recursive \in 0 .. R * R - 1
    BY <2>4, <2>6, <2>7, <2>8 DEF InCharge
  <2> QED
    BY <2>9 DEF R
<1>2. ASSUME IInv, NEW t \in Thread, pc[t] = "idle", writer = t
      PROVE  recursive = Count(t, "X") + RECURSIVE_U * Count(t, "U")
                         + IF Claimed(t) THEN RECURSIVE_X ELSE 0
  <2>1. IdleOwner(t)
    BY <1>2 DEF IInv, Own
  <2> QED
    <3>1. Count(t, "X") = CountIn(memo[t], "X") /\ Count(t, "U") = CountIn(memo[t], "U")
      BY Zenon DEF Count, CountIn
    <3>2. Claim = IF Claimed(t) THEN RECURSIVE_X ELSE 0
      BY <1>2 DEF Claim, Claimed, RECURSIVE_X
    <3> QED
      BY <2>1, <3>1, <3>2, Zenon DEF IdleOwner
<1>3. IInv => RecursiveCounts
  BY <1>1, <1>2 DEF RecursiveCounts
<1> QED
  BY <1>3, Invariance, PTL

\* The last release of the owner, or of page I/O, names the mode in which the inner
\* latch is held: wr_unlock() is not called on a U latch, nor u_unlock() on an X one.
THEOREM UnlockRight == Spec => []UnlockMatches
<1>1. IInv => UnlockMatches
  BY Zenon DEF IInv, Own, Busy, Latched, UnlockMatches
<1> QED
  BY <1>1, Invariance, PTL

\* An X entry of a mini-transaction excludes every other one, a U entry another U
\* entry, and a page being read excludes all.
THEOREM MemosRight == Spec => []MemosExclude
<1>1. ASSUME IInv, NEW t \in Thread, Has(t, "X") \/ Has(t, "U")
      PROVE  InCharge(t)
  BY <1>1, BystanderHas, Zenon DEF IInv, Own, InCharge
<1>2. ASSUME IInv, NEW t \in Thread, Has(t, "X")
      PROVE  holdS = {}
  <2>1. holdW[t] = "X" \/ holdW[FOR_IO] = "X"
    <3>1. CASE pc[t] # "idle"
      <4>1. Busy(t) /\ pc[t] \in Labels /\ pc[t] # "idle"
        BY <1>2, <3>1, Zenon DEF IInv, TypeOK, Own
      <4>2. \/ holdW[t] = "X" \/ holdW[FOR_IO] = "X"
            \/ memo[t] = <<>> \/ memo[t] = <<"U">> \/ memo[t] = <<"S">>
        BY <4>1, Zenon DEF Busy, Latched, Labels
      <4>3. memo[t] # <<>> /\ memo[t] # <<"U">> /\ memo[t] # <<"S">>
        BY <1>2 DEF Has
      <4> QED
        BY <4>2, <4>3, Zenon
    <3>2. CASE pc[t] = "idle"
      <4>1. IdleOwner(t)
        BY <1>1, <1>2, <3>2, Zenon DEF InCharge, IInv, Own
      <4> QED
        BY <1>2, <4>1, Zenon DEF IdleOwner, Owning, Has
    <3> QED
      BY <3>1, <3>2, Zenon
  <2> QED
    BY <1>2, <2>1 DEF IInv, L!Exclusion, Holder
<1>3. ASSUME IInv, NEW t \in Thread, NEW u \in Thread, t # u
      PROVE  /\ Has(t, "X") => memo[u] = <<>>
             /\ Has(t, "U") => ~Has(u, "U")
  <2>1. ASSUME InCharge(t) PROVE Bystander(u)
    BY <1>3, <2>1 DEF IInv, Own, InCharge
  <2> QED
    BY <1>1, <1>2, <1>3, <2>1, BystanderHas, Zenon DEF Bystander
<1>4. ASSUME IInv, io = "X", NEW t \in Thread PROVE memo[t] = <<>>
  <2>1. ~InCharge(t) /\ Unowned
    BY <1>4, NoCharge
  <2>2. holdS = {}
    BY <1>4, <2>1 DEF Unowned, IInv, L!Exclusion, Holder
  <2> QED
    BY <1>4, <2>1, <2>2, Zenon DEF IInv, Own, InCharge, Bystander
<1>5. IInv => MemosExclude
  BY <1>3, <1>4, Zenon DEF MemosExclude
<1> QED
  BY <1>5, Invariance, PTL
=============================================================================

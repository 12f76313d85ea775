-------------------------- MODULE PairingGateProofs --------------------------
(* Proofs about PairingGate, for any threads, limits and clock.            *)
EXTENDS PairingGate, TLAPS

\* What LastWith returns: x at the end, and before it the end of s, with its
\* first member gone if there was no room for it.
LEMMA LastWithFacts ==
  ASSUME NEW s \in Seq(Nat), NEW x \in Nat, NEW n \in Nat \ {0}, Len(s) <= n
  PROVE  LET t == LastWith(s, x, n)
         IN  /\ t \in Seq(Nat)
             /\ Len(t) = IF Len(s) = n THEN n ELSE Len(s) + 1
             /\ t[Len(t)] = x
             /\ \A i \in 1..Len(t) - 1 : t[i] = s[i + (Len(s) + 1 - Len(t))]
  <1> DEFINE a == Append(s, x)
             t == LastWith(s, x, n)
  <1>1. /\ a \in Seq(Nat) /\ Len(a) = Len(s) + 1 /\ a[Len(s) + 1] = x
        /\ \A i \in 1..Len(s) : a[i] = s[i]
    OBVIOUS
  <1>2. CASE Len(s) = n
    <2>1. t = SubSeq(a, 2, n + 1)
      BY <1>1, <1>2 DEF LastWith
    <2>2. /\ t \in Seq(Nat) /\ Len(t) = n
          /\ \A i \in 1..n : t[i] = a[i + 1]
      BY <1>1, <1>2, <2>1
    <2> QED BY <1>1, <1>2, <2>2
  <1>3. CASE Len(s) < n
    <2>1. t = a
      BY <1>1, <1>3 DEF LastWith
    <2> QED BY <1>1, <1>3, <2>1
  <1> QED BY <1>2, <1>3

\* A sequence of readings in order, and one of nothing after x.
InOrder(s) == \A i, j \in 1..Len(s) : i <= j => s[i] <= s[j]
NoneAfter(s, x) == \A i \in 1..Len(s) : s[i] <= x

\* What is no older than every reading goes to the end of them.
LEMMA LastWithInOrder ==
  ASSUME NEW s \in Seq(Nat), NEW x \in Nat, NEW n \in Nat \ {0}, Len(s) <= n,
         InOrder(s), NoneAfter(s, x)
  PROVE  InOrder(LastWith(s, x, n)) /\ NoneAfter(LastWith(s, x, n), x)
  <1> DEFINE t == LastWith(s, x, n)
             m == Len(t)
             d == Len(s) + 1 - m
  <1>1. /\ t \in Seq(Nat) /\ m = (IF Len(s) = n THEN n ELSE Len(s) + 1) /\ t[m] = x
        /\ \A i \in 1..m - 1 : t[i] = s[i + d]
    BY LastWithFacts
  <1> HIDE DEF t
  <1>2. \A i \in 1..m : t[i] \in Nat
    BY ONLY <1>1
  <1>3. m \in Nat \ {0} /\ d \in {0, 1} /\ Len(s) \in Nat /\ Len(s) = m + d - 1
    BY ONLY <1>1, s \in Seq(Nat), n \in Nat \ {0}, Len(s) <= n
  <1> HIDE DEF m, d
  <1>4. \A i \in 1..m - 1 : i + d \in 1..Len(s)
    BY ONLY <1>3
  <1>5. \A i \in 1..m : i = m \/ i \in 1..m - 1
    BY ONLY <1>3
  <1>6. \A i \in 1..m : t[i] <= x
    <2>1. ASSUME NEW i \in 1..m - 1
          PROVE  t[i] <= x
      BY <1>1, <1>4 DEF NoneAfter
    <2> QED BY ONLY <1>1, <1>5, <2>1, x \in Nat
  <1>7. ASSUME NEW i \in 1..m, NEW j \in 1..m, i <= j
        PROVE  t[i] <= t[j]
    <2>1. CASE j = m
      BY ONLY <1>1, <1>6, <2>1
    <2>2. CASE j # m
      <3>1. i \in 1..m - 1 /\ j \in 1..m - 1
        BY ONLY <1>3, <1>7, <2>2, i \in 1..m, j \in 1..m
      <3>2. i + d <= j + d
        BY ONLY <1>3, <1>7, <3>1
      <3>3. s[i + d] <= s[j + d]
        BY <1>4, <3>1, <3>2 DEF InOrder
      <3> QED BY ONLY <1>1, <3>1, <3>3
    <2> QED BY <2>1, <2>2
  <1> QED BY <1>6, <1>7 DEF InOrder, NoneAfter, t, m

-----------------------------------------------------------------------------
(* Pairing codes *)

\* No reading is of the future.
Past(s) == NoneAfter(s, clock)
ReadBefore == \A r \in Request : seen[r] <= clock

\* Where the last lockout lies in the record: before the failures that are
\* counted now, or, with none, after the whole record; a running one starts
\* at the last failure.
LastLockout ==
  LET n == Len(wrong)
  IN  /\ failures <= n /\ n <= MaxFailures + 1
      /\ failures \in 1..n - 1 => wrong[n - failures + 1] - wrong[n - failures] >= Lockout
      /\ failures = 0 /\ n > 0 => clock - wrong[n] >= Lockout
      /\ failures = MaxFailures => lockedUntil - wrong[n] >= Lockout

Paced == InOrder(wrong) /\ Past(wrong) /\ ReadBefore /\ LastLockout /\ GuessesPaced

LEMMA WrongStep ==
  ASSUME LimitsTypeOK, Paced, NEW r \in Request, RejectWrong(r)
  PROVE  Paced' /\ wrong' \in Seq(Nat)
  <1> DEFINE n == Len(wrong)
             m == Len(wrong')
             d == n + 1 - m
  <1> USE DEF LimitsTypeOK, Paced
  <1>0. MaxFailures \in Nat \ {0} /\ Lockout \in Nat \ {0}
    BY LimitsPositive
  <1>1. /\ n \in Nat /\ n <= MaxFailures + 1 /\ failures \in 0..MaxFailures /\ failures <= n
        /\ clock \in Nat /\ wrong \in Seq(Nat)
    BY DEF LastLockout
  <1>2. wrong' = LastWith(wrong, clock, MaxFailures + 1) /\ clock' = clock
    BY DEF RejectWrong, Answered
  <1>a. Len(wrong) <= MaxFailures + 1 /\ MaxFailures + 1 \in Nat \ {0}
    BY <1>0, <1>1
  <1>3. /\ wrong' \in Seq(Nat) /\ m = IF n = MaxFailures + 1 THEN MaxFailures + 1 ELSE n + 1
        /\ wrong'[m] = clock
        /\ \A i \in 1..m - 1 : wrong'[i] = wrong[i + d]
    <2> DEFINE t == LastWith(wrong, clock, MaxFailures + 1)
    <2>1. /\ t \in Seq(Nat)
          /\ Len(t) = IF Len(wrong) = MaxFailures + 1 THEN MaxFailures + 1 ELSE Len(wrong) + 1
          /\ t[Len(t)] = clock
          /\ \A i \in 1..Len(t) - 1 : t[i] = wrong[i + (Len(wrong) + 1 - Len(t))]
      BY ONLY <1>1, <1>a, LastWithFacts
    <2>2. wrong' = t
      BY <1>2
    <2> HIDE DEF t
    <2> QED BY ONLY <2>1, <2>2
  <1>b. /\ \A i \in 1..m : wrong'[i] \in Nat
        /\ \A i \in 1..n : wrong[i] \in Nat /\ wrong[i] <= clock
        /\ m = Len(wrong') /\ n = Len(wrong) /\ d = n + 1 - m
    <2>1. /\ \A i \in 1..Len(wrong') : wrong'[i] \in Nat
          /\ \A i \in 1..Len(wrong) : wrong[i] \in Nat
      BY ONLY <1>1, <1>3
    <2> QED BY <2>1 DEF Past, NoneAfter
  <1> HIDE DEF n, m, d
  <1>4. d \in {0, 1} /\ m \in Nat \ {0} /\ m <= MaxFailures + 1
    BY ONLY <1>0, <1>1, <1>3, <1>b
  <1>5. \A i \in 1..m - 1 : i + d \in 1..n
    BY ONLY <1>1, <1>b, <1>4
  <1>6. InOrder(wrong)' /\ Past(wrong)'
    <2>1. InOrder(wrong) /\ NoneAfter(wrong, clock)
      BY DEF Past
    <2>2. InOrder(wrong') /\ NoneAfter(wrong', clock)
      BY ONLY <1>1, <1>2, <1>a, <2>1, LastWithInOrder
    <2> QED BY <1>2, <2>2 DEF InOrder, NoneAfter, Past
  <1>7. ReadBefore'
    BY <1>1, <1>2 DEF RejectWrong, Answered, ReadBefore, None
  <1>8. /\ failures' \in 1..MaxFailures /\ failures' <= m
        /\ failures' = MaxFailures => lockedUntil' = clock + Lockout
        /\ failures' = IF lockedUntil # None THEN 1 ELSE failures + 1
    <2>1. lockedUntil = None => failures < MaxFailures
      BY <1>0, <1>1
    <2>2. failures' = IF lockedUntil # None THEN 1 ELSE failures + 1
      BY DEF RejectWrong, FailuresLeft
    <2>3. failures' \in 1..MaxFailures
      BY ONLY <1>0, <1>1, <2>1, <2>2
    <2>4. failures' <= m
      <3>1. failures' <= n + 1
        BY ONLY <1>1, <2>2
      <3> QED BY ONLY <1>0, <1>1, <1>3, <2>3, <3>1
    <2>5. failures' = MaxFailures => lockedUntil' = clock + Lockout
      <3>1. /\ failures' = FailuresLeft + 1
            /\ lockedUntil' = IF FailuresLeft + 1 >= MaxFailures THEN clock + Lockout ELSE None
        BY DEF RejectWrong, LockedFrom
      <3> QED BY ONLY <1>0, <2>3, <3>1
    <2> QED BY <2>2, <2>3, <2>4, <2>5
  \* The failures counted now are those since the last lockout: before them,
  \* if there is anything, lies a gap.
  <1>9. failures' \in 1..m - 1 => wrong'[m - failures' + 1] - wrong'[m - failures'] >= Lockout
    <2> SUFFICES ASSUME failures' \in 1..m - 1
                 PROVE  wrong'[m - failures' + 1] - wrong'[m - failures'] >= Lockout
      OBVIOUS
    <2>1. CASE failures' = 1
      <3>1. n > 0 /\ m - 1 \in 1..m - 1 /\ m - 1 + d = n
        <4>1. n \in Nat /\ m \in Nat /\ d = n + 1 - m /\ d \in {0, 1}
          BY ONLY <1>1, <1>4, <1>b
        <4>2. m - 1 >= 1
          BY ONLY <1>4, <2>1, failures' \in 1..m - 1
        <4> QED BY ONLY <4>1, <4>2
      <3>2. wrong'[m - 1] = wrong[n] /\ wrong'[m] = clock
        BY ONLY <1>3, <3>1
      <3>3. wrong[n] \in Nat /\ clock - wrong[n] >= Lockout
        <4>1. CASE lockedUntil # None
          <5>1. lockedUntil \in Nat /\ lockedUntil - wrong[n] >= Lockout /\ wrong[n] \in Nat
            BY <1>1, <1>b, <3>1, <4>1 DEF LastLockout
          <5>2. seen[r] >= lockedUntil /\ seen[r] <= clock /\ seen[r] \in Int
            BY <4>1, <5>1 DEF RejectWrong, LockedOut, ReadBefore, None
          <5> QED BY ONLY <1>0, <1>1, <5>1, <5>2
        <4>2. CASE lockedUntil = None
          <5>1. failures = 0
            BY <1>1, <1>8, <2>1, <4>2
          <5> QED BY <1>1, <1>b, <3>1, <5>1 DEF LastLockout
        <4> QED BY <4>1, <4>2
      <3>4. m - failures' + 1 = m /\ m - failures' = m - 1
        BY ONLY <1>4, <2>1
      <3> QED BY ONLY <1>1, <3>2, <3>3, <3>4
    <2>2. CASE failures' # 1
      <3>1. failures' = failures + 1 /\ failures \in 1..n - 1
        BY ONLY <1>1, <1>3, <1>4, <1>8, <2>2, failures' \in 1..m - 1
      <3>2. /\ m - failures' \in 1..m - 1 /\ m - failures' + 1 \in 1..m - 1
            /\ m - failures' + d = n - failures /\ m - failures' + 1 + d = n - failures + 1
        BY ONLY <1>1, <1>4, <1>b, <3>1, failures' \in 1..m - 1
      <3>3. /\ wrong'[m - failures'] = wrong[n - failures]
            /\ wrong'[m - failures' + 1] = wrong[n - failures + 1]
        BY ONLY <1>3, <3>2
      <3> QED BY <1>b, <3>1, <3>3 DEF LastLockout
    <2> QED BY <2>1, <2>2
  <1>10. LastLockout'
    <2>1. failures' = MaxFailures => lockedUntil' - wrong'[m] >= Lockout
      BY ONLY <1>0, <1>1, <1>3, <1>8
    <2> QED BY <1>0, <1>b, <1>4, <1>8, <1>9, <2>1 DEF LastLockout
  <1>11. GuessesPaced'
    <2> SUFFICES ASSUME m = MaxFailures + 1
                 PROVE  wrong'[MaxFailures + 1] - wrong'[1] >= Lockout
      BY <1>b DEF GuessesPaced
    <2> DEFINE i == m - failures'
    <2>1. i \in 1..m /\ i + 1 \in 1..m /\ failures' \in 1..m - 1
      BY ONLY <1>0, <1>4, <1>8, m = MaxFailures + 1
    <2>2. wrong'[i + 1] - wrong'[i] >= Lockout
      BY <1>9, <2>1
    <2>3. wrong'[1] <= wrong'[i] /\ wrong'[i + 1] <= wrong'[m]
      <3>1. 1 \in 1..m /\ m \in 1..m
        BY ONLY <1>4
      <3>2. 1 <= i /\ i + 1 <= m
        BY ONLY <2>1
      <3> QED BY ONLY <1>6, <1>b, <2>1, <3>1, <3>2 DEF InOrder
    <2> HIDE DEF i
    <2>4. {wrong'[1], wrong'[i], wrong'[i + 1], wrong'[m]} \subseteq Nat
      <3>1. 1 \in 1..m /\ m \in 1..m
        BY ONLY <1>4
      <3>2. \A j \in 1..m : wrong'[j] \in Nat
        BY ONLY <1>4, <1>b
      <3> QED BY ONLY <2>1, <3>1, <3>2
    <2> QED BY ONLY <1>0, <2>2, <2>3, <2>4, m = MaxFailures + 1
  <1> QED BY <1>3, <1>6, <1>7, <1>10, <1>11

\* Every step keeps the record paced.
LEMMA PacedStep == LimitsTypeOK /\ Paced /\ [LimitsNext]_limitsVars => Paced'
  <1> SUFFICES ASSUME LimitsTypeOK, Paced, [LimitsNext]_limitsVars PROVE Paced'
    OBVIOUS
  <1>0. /\ MaxFailures \in Nat \ {0} /\ Lockout \in Nat \ {0}
        /\ clock \in Nat /\ seen \in [Request -> Nat \union {None}]
        /\ failures \in 0..MaxFailures /\ lockedUntil \in Nat \union {None}
        /\ (lockedUntil # None <=> failures = MaxFailures)
        /\ wrong \in Seq(Nat)
    BY LimitsPositive DEF LimitsTypeOK
  <1>a. \A i \in 1..Len(wrong) : wrong[i] \in Nat
    BY <1>0
  <1>1. CASE UNCHANGED limitsVars \/ TryAdmit
    BY <1>1 DEF limitsVars, TryAdmit, Paced, InOrder, NoneAfter, Past, ReadBefore, LastLockout, GuessesPaced
  <1>2. CASE ClockTicks
    <2>1. clock' = clock + 1 /\ UNCHANGED <<seen, failures, lockedUntil, wrong>>
      BY <1>2 DEF ClockTicks
    <2>2. InOrder(wrong)' /\ GuessesPaced'
      BY <2>1 DEF Paced, InOrder, GuessesPaced
    <2>3. Past(wrong)'
      BY <1>0, <1>a, <2>1 DEF Paced, NoneAfter, Past
    <2>4. ReadBefore'
      BY <1>0, <2>1 DEF Paced, ReadBefore, None
    <2>5. LastLockout'
      <3>1. Len(wrong) > 0 => wrong[Len(wrong)] \in Nat
        BY <1>0, <1>a
      <3> QED BY <1>0, <2>1, <3>1 DEF Paced, LastLockout
    <2> QED BY <2>2, <2>3, <2>4, <2>5 DEF Paced
  <1>3. ASSUME NEW r \in Request, Submit(r)
        PROVE  Paced'
    BY <1>0, <1>3 DEF Submit, Paced, InOrder, NoneAfter, Past, ReadBefore, LastLockout, GuessesPaced
  <1>4. ASSUME NEW r \in Request, RejectUnseen(r) \/ StoreError(r)
        PROVE  Paced'
    <2>1. clock' = clock /\ wrong' = wrong /\ seen' = [seen EXCEPT ![r] = None]
      BY <1>4 DEF RejectUnseen, StoreError, Answered
    <2>2. InOrder(wrong)' /\ Past(wrong)' /\ GuessesPaced'
      BY <2>1 DEF Paced, InOrder, NoneAfter, Past, GuessesPaced
    <2>3. ReadBefore'
      BY <1>0, <2>1 DEF Paced, ReadBefore, None
    <2>4. LastLockout'
      <3>1. CASE UNCHANGED <<failures, lockedUntil>>
        BY <2>1, <3>1 DEF Paced, LastLockout
      <3>2. CASE StoreError(r) /\ lockedUntil # None
        <4>1. failures' = 0 /\ lockedUntil' = None /\ failures = MaxFailures
          BY <1>0, <3>2 DEF StoreError, FailuresLeft
        <4>2. seen[r] >= lockedUntil /\ seen[r] <= clock
          BY <1>0, <3>2 DEF StoreError, LockedOut, Answered, Paced, ReadBefore, None
        <4>3. Len(wrong) > 0 => wrong[Len(wrong)] \in Nat
          BY <1>0, <1>a
        <4>4. Len(wrong) > 0 => clock - wrong[Len(wrong)] >= Lockout
          <5> SUFFICES ASSUME Len(wrong) > 0
                       PROVE  clock - wrong[Len(wrong)] >= Lockout
            OBVIOUS
          <5>1. lockedUntil - wrong[Len(wrong)] >= Lockout
            BY <4>1 DEF Paced, LastLockout
          <5>2. lockedUntil \in Nat /\ seen[r] \in Nat
            BY <1>0, <3>2 DEF StoreError, Answered
          <5> QED BY ONLY <1>0, <4>2, <4>3, <5>1, <5>2, Len(wrong) > 0
        <4> QED BY <1>0, <2>1, <4>1, <4>4 DEF Paced, LastLockout
      <3>3. CASE StoreError(r) /\ lockedUntil = None
        BY <3>1, <3>3 DEF StoreError, FailuresLeft
      <3> QED BY <1>4, <3>1, <3>2, <3>3 DEF RejectUnseen
    <2> QED BY <2>2, <2>3, <2>4 DEF Paced
  <1>5. ASSUME NEW r \in Request, Accept(r)
        PROVE  Paced'
    <2>1. /\ clock' = clock /\ wrong' = << >> /\ seen' = [seen EXCEPT ![r] = None]
          /\ failures' = 0 /\ Len(wrong') = 0
      BY <1>5 DEF Accept, Answered
    <2>2. ReadBefore'
      BY <1>0, <2>1 DEF Paced, ReadBefore, None
    <2>3. LastLockout' /\ GuessesPaced'
      BY <1>0, <2>1 DEF LastLockout, GuessesPaced
    <2> QED BY <2>1, <2>2, <2>3 DEF Paced, InOrder, NoneAfter, Past
  <1>6. ASSUME NEW r \in Request, RejectWrong(r)
        PROVE  Paced'
    BY <1>6, WrongStep
  <1> QED BY <1>1, <1>2, <1>3, <1>4, <1>5, <1>6 DEF LimitsNext, CheckPairingCode

-----------------------------------------------------------------------------
(* Registrations *)

\* The admission at j opened its window: the window that is open now, or one
\* that was over before any of the admissions a cap's worth later.
Opened(j) ==
  \/ j = Len(admitted) - count + 1
  \/ /\ windowStart >= admitted[j] + Window
     /\ \A k \in j + MaxAdmitted..Len(admitted) : admitted[k] >= admitted[j] + Window

\* The first admission of the open window is its start, and of any run of
\* MaxAdmitted admissions one opened a window.
Windows ==
  LET n == Len(admitted)
  IN  /\ count <= n /\ n <= 2 * MaxAdmitted
      /\ count > 0 => admitted[n - count + 1] = windowStart
      /\ count = 0 => n = 0 /\ clock >= windowStart + Window
      /\ windowStart <= clock
      /\ InOrder(admitted) /\ Past(admitted)
      /\ \A i \in 1..n - MaxAdmitted + 1 : \E j \in i..i + MaxAdmitted - 1 : Opened(j)

LEMMA WindowsImplyPaced == LimitsTypeOK /\ Windows => RegistrationsPaced
  <1> SUFFICES ASSUME LimitsTypeOK, Windows, Len(admitted) = 2 * MaxAdmitted
               PROVE  admitted[2 * MaxAdmitted] - admitted[1] >= Window
    BY DEF RegistrationsPaced
  <1>0. /\ MaxAdmitted \in Nat \ {0} /\ Window \in Nat \ {0} /\ count \in 0..MaxAdmitted
        /\ \A i \in 1..2 * MaxAdmitted : admitted[i] \in Nat
    BY LimitsPositive DEF LimitsTypeOK
  <1>1. 1 \in 1..Len(admitted) - MaxAdmitted + 1
    BY <1>0
  <1>2. PICK j \in 1..MaxAdmitted : Opened(j)
    <2>1. \E j \in 1..1 + MaxAdmitted - 1 : Opened(j)
      BY <1>1 DEF Windows
    <2>2. 1 + MaxAdmitted - 1 = MaxAdmitted
      BY <1>0
    <2> QED BY ONLY <2>1, <2>2
  <1>3. j # Len(admitted) - count + 1
    BY <1>0
  <1>4. 2 * MaxAdmitted \in j + MaxAdmitted..Len(admitted)
    BY <1>0
  <1>5. admitted[2 * MaxAdmitted] >= admitted[j] + Window
    BY <1>2, <1>3, <1>4 DEF Opened
  <1>6. admitted[1] <= admitted[j]
    BY <1>0 DEF Windows, InOrder
  <1> QED BY <1>0, <1>5, <1>6

\* An admission: what it adds to the end of the record either joins the open
\* window or opens one, and a window that was open or over still is over.
LEMMA AdmitStep ==
  ASSUME LimitsTypeOK, Windows, TryAdmit, CountNow < MaxAdmitted
  PROVE  Windows' /\ admitted' \in Seq(Nat)
  <1> DEFINE n == Len(admitted)
             m == Len(admitted')
             d == n + 1 - m
             c == count'
             w == windowStart'
             a == admitted
             b == admitted'
             cap == 2 * MaxAdmitted
  <1>0. /\ MaxAdmitted \in Nat \ {0} /\ Window \in Nat \ {0} /\ clock \in Nat
        /\ windowStart \in Nat /\ count \in 0..MaxAdmitted /\ a \in Seq(Nat)
    BY LimitsPositive DEF LimitsTypeOK
  <1>1. /\ n \in Nat /\ n <= cap /\ cap \in Nat \ {0} /\ windowStart <= clock
        /\ InOrder(a) /\ NoneAfter(a, clock) /\ count <= n
        /\ count > 0 => a[n - count + 1] = windowStart
        /\ count = 0 => n = 0 /\ clock >= windowStart + Window
    BY <1>0 DEF Windows, Past
  <1>2. /\ b = LastWith(a, clock, cap) /\ clock' = clock
        /\ w = WindowNow /\ c = CountNow + 1
    BY DEF TryAdmit
  <1>3. /\ b \in Seq(Nat) /\ m = (IF n = cap THEN cap ELSE n + 1) /\ b[m] = clock
        /\ \A i \in 1..m - 1 : b[i] = a[i + d]
    <2> DEFINE t == LastWith(a, clock, cap)
    <2>1. /\ t \in Seq(Nat)
          /\ Len(t) = IF Len(a) = cap THEN cap ELSE Len(a) + 1
          /\ t[Len(t)] = clock
          /\ \A i \in 1..Len(t) - 1 : t[i] = a[i + (Len(a) + 1 - Len(t))]
      <3>1. a \in Seq(Nat) /\ clock \in Nat /\ cap \in Nat \ {0} /\ Len(a) <= cap
        BY ONLY <1>0, <1>1
      <3> HIDE DEF a, cap
      <3> QED BY ONLY <3>1, LastWithFacts
    <2>2. b = t
      BY <1>2
    <2> HIDE DEF t
    <2> QED BY ONLY <2>1, <2>2
  <1>4. InOrder(b) /\ NoneAfter(b, clock)
    BY ONLY <1>0, <1>1, <1>2, LastWithInOrder
  <1>5. /\ \A i \in 1..n : a[i] \in Nat
        /\ n = Len(admitted) /\ m = Len(admitted')
    BY ONLY <1>0
  <1>6. /\ w \in Nat /\ windowStart <= w /\ w <= clock /\ c \in 1..MaxAdmitted
        /\ \/ w = windowStart /\ c = count + 1 /\ count > 0
           \/ w = clock /\ c = 1 /\ clock >= windowStart + Window
    BY <1>0, <1>1, <1>2 DEF WindowNow, CountNow
  <1> HIDE DEF n, m, d, c, w, a, b, cap
  <1>7. m \in 1..cap /\ d \in {0, 1} /\ n = m + d - 1 /\ c <= m
    BY ONLY <1>0, <1>1, <1>3, <1>6 DEF d, cap
  <1>8. b[m - c + 1] = w
    <2>1. CASE c = 1
      <3>1. w = clock /\ m - c + 1 = m
        BY ONLY <1>0, <1>6, <1>7, <2>1
      <3> QED BY ONLY <1>3, <3>1
    <2>2. CASE c # 1
      <3>1. w = windowStart /\ c = count + 1 /\ count > 0
        BY ONLY <1>6, <2>2
      <3>2. m - c + 1 \in 1..m - 1 /\ m - c + 1 + d = n - count + 1
        BY ONLY <1>0, <1>1, <1>6, <1>7, <3>1
      <3> QED BY ONLY <1>1, <1>3, <3>1, <3>2
    <2> QED BY <2>1, <2>2
  \* An opening of the old record is one of the new.
  <1>9. ASSUME NEW j \in 1..m - 1, Opened(j + d)
        PROVE  Opened(j)'
    <2>1. j + d \in 1..n /\ a[j + d] \in Nat /\ b[j] = a[j + d]
      BY ONLY <1>3, <1>5, <1>7, j \in 1..m - 1
    <2>2. CASE j + d = n - count + 1 /\ w = windowStart /\ c = count + 1
      <3>1. j = m - c + 1
        BY ONLY <1>0, <1>7, <2>2, j \in 1..m - 1
      <3> QED BY <1>5, <3>1 DEF Opened, c
    <2>3. CASE /\ w >= a[j + d] + Window
               /\ \A k \in j + d + MaxAdmitted..n : a[k] >= a[j + d] + Window
      <3>1. w >= b[j] + Window
        BY ONLY <2>1, <2>3
      <3>2. ASSUME NEW k \in j + MaxAdmitted..m
            PROVE  b[k] >= b[j] + Window
        <4>1. CASE k = m
          <5>1. b[k] = clock /\ b[j] \in Nat
            BY ONLY <1>3, <2>1, <4>1
          <5> QED BY ONLY <1>0, <1>6, <3>1, <5>1
        <4>2. CASE k # m
          <5>1. k \in 1..m - 1 /\ k + d \in j + d + MaxAdmitted..n
            BY ONLY <1>0, <1>7, <4>2, j \in 1..m - 1, k \in j + MaxAdmitted..m
          <5> QED BY ONLY <1>3, <2>1, <2>3, <5>1
        <4> QED BY <4>1, <4>2
      <3> QED BY <1>5, <3>1, <3>2 DEF Opened, w, b
    <2>4. CASE j + d = n - count + 1 /\ w = clock /\ clock >= windowStart + Window
      <3>1. count > 0 /\ a[j + d] = windowStart
        BY ONLY <1>0, <1>1, <2>1, <2>4
      <3>2. \A k \in j + d + MaxAdmitted..n : FALSE
        BY ONLY <1>0, <1>1, <2>4
      <3> QED BY <2>3, <2>4, <3>1, <3>2
    <2>5. CASE /\ windowStart >= a[j + d] + Window
               /\ \A k \in j + d + MaxAdmitted..n : a[k] >= a[j + d] + Window
      <3>1. w >= a[j + d] + Window
        BY ONLY <1>0, <1>6, <2>1, <2>5
      <3> QED BY <2>3, <2>5, <3>1
    <2> QED BY <1>5, <1>6, <1>9, <2>2, <2>4, <2>5 DEF Opened, a
  <1>10. ASSUME NEW i \in 1..m - MaxAdmitted + 1
         PROVE  \E j \in i..i + MaxAdmitted - 1 : Opened(j)'
    <2>1. CASE i = m - MaxAdmitted + 1
      <3>1. m - c + 1 \in i..i + MaxAdmitted - 1
        BY ONLY <1>0, <1>6, <1>7, <2>1
      <3>2. PICK j \in i..i + MaxAdmitted - 1 : j = m - c + 1
        BY ONLY <3>1
      <3>3. Opened(j)'
        BY <1>5, <3>2 DEF Opened, c
      <3> QED BY <3>3
    <2>2. CASE i # m - MaxAdmitted + 1
      <3>1. i + d \in 1..n - MaxAdmitted + 1
        BY ONLY <1>0, <1>7, <2>2, i \in 1..m - MaxAdmitted + 1
      <3>2. PICK k \in i + d..i + d + MaxAdmitted - 1 : Opened(k)
        BY <1>5, <3>1 DEF Windows
      <3>3. /\ k - d \in i..i + MaxAdmitted - 1 /\ k - d \in 1..m - 1 /\ (k - d) + d = k
        BY ONLY <1>0, <1>7, <3>1, k \in i + d..i + d + MaxAdmitted - 1,
                i \in 1..m - MaxAdmitted + 1
      <3>4. PICK j \in i..i + MaxAdmitted - 1 : j \in 1..m - 1 /\ j + d = k
        BY ONLY <3>3
      <3>5. Opened(j + d)
        BY ONLY <3>2, <3>4
      <3>6. Opened(j)'
        BY <1>9, <3>4, <3>5
      <3> QED BY <3>6
    <2> QED BY <2>1, <2>2
  <1>11. /\ c <= m /\ m <= cap /\ w <= clock
         /\ c > 0 => b[m - c + 1] = w
         /\ c = 0 => m = 0 /\ clock >= w + Window
    BY ONLY <1>0, <1>1, <1>6, <1>7, <1>8
  <1>12. InOrder(admitted)' /\ Past(admitted)'
    BY <1>2, <1>4 DEF InOrder, NoneAfter, Past, b
  <1>13. Windows'
    BY <1>2, <1>5, <1>10, <1>11, <1>12 DEF Windows, b, c, w, cap
  <1> QED BY <1>3, <1>13 DEF b

\* Every step keeps the record of admissions inside its windows.
LEMMA WindowsStep == LimitsTypeOK /\ Windows /\ [LimitsNext]_limitsVars => Windows'
  <1> SUFFICES ASSUME LimitsTypeOK, Windows, [LimitsNext]_limitsVars PROVE Windows'
    OBVIOUS
  <1>0. /\ MaxAdmitted \in Nat \ {0} /\ Window \in Nat \ {0} /\ clock \in Nat
        /\ windowStart \in Nat /\ count \in 0..MaxAdmitted
        /\ \A i \in 1..Len(admitted) : admitted[i] \in Nat
    BY LimitsPositive DEF LimitsTypeOK
  <1>1. CASE UNCHANGED <<windowStart, count, admitted>> /\ clock' \in Nat /\ clock' >= clock
    <2>1. \A j : Opened(j)' <=> Opened(j)
      BY <1>1 DEF Opened
    <2>2. Past(admitted)'
      BY <1>0, <1>1 DEF Windows, Past, NoneAfter
    <2>3. windowStart <= clock' /\ (clock >= windowStart + Window => clock' >= windowStart + Window)
      BY <1>0, <1>1 DEF Windows
    <2> QED BY <1>1, <2>1, <2>2, <2>3 DEF Windows, InOrder
  <1>2. CASE TryAdmit /\ CountNow < MaxAdmitted
    BY <1>2, AdmitStep
  <1>3. CASE TryAdmit /\ ~(CountNow < MaxAdmitted)
    <2>1. UNCHANGED <<windowStart, count, admitted, clock>>
      BY <1>0, <1>3 DEF TryAdmit, CountNow, WindowNow
    <2> QED BY <1>0, <1>1, <2>1
  <1>4. CASE ClockTicks
    BY <1>0, <1>1, <1>4 DEF ClockTicks
  <1>5. ASSUME NEW r \in Request, Submit(r) \/ CheckPairingCode(r)
        PROVE  Windows'
    <2>1. UNCHANGED <<windowStart, count, admitted, clock>>
      BY <1>5 DEF Submit, CheckPairingCode, RejectUnseen, Accept, RejectWrong, StoreError, Answered
    <2> QED BY <1>0, <1>1, <2>1
  <1>6. CASE UNCHANGED limitsVars
    BY <1>0, <1>1, <1>6 DEF limitsVars
  <1> QED BY <1>2, <1>3, <1>4, <1>5, <1>6 DEF LimitsNext

-----------------------------------------------------------------------------
(* The specification *)

IInv == LimitsTypeOK /\ Paced /\ Windows

LEMMA TypeStep == IInv /\ [LimitsNext]_limitsVars => LimitsTypeOK'
  <1> SUFFICES ASSUME IInv, [LimitsNext]_limitsVars PROVE LimitsTypeOK'
    OBVIOUS
  <1> USE DEF IInv
  <1>0. MaxFailures \in Nat \ {0} /\ Lockout \in Nat \ {0} /\ MaxAdmitted \in Nat \ {0}
    BY LimitsPositive
  <1>1. CASE UNCHANGED limitsVars
    BY <1>1 DEF LimitsTypeOK, limitsVars
  <1>2. CASE ClockTicks
    BY <1>2 DEF LimitsTypeOK, ClockTicks
  <1>3. CASE TryAdmit
    <2>1. admitted' \in Seq(Nat)
      BY <1>3, AdmitStep DEF TryAdmit, LimitsTypeOK
    <2>2. windowStart' \in Nat /\ count' \in 0..MaxAdmitted
      BY <1>0, <1>3 DEF LimitsTypeOK, TryAdmit, WindowNow, CountNow
    <2> QED BY <1>3, <2>1, <2>2 DEF LimitsTypeOK, TryAdmit
  <1>4. ASSUME NEW r \in Request, Submit(r)
        PROVE  LimitsTypeOK'
    BY <1>4 DEF LimitsTypeOK, Submit
  <1>5. ASSUME NEW r \in Request, RejectUnseen(r)
        PROVE  LimitsTypeOK'
    BY <1>5 DEF LimitsTypeOK, RejectUnseen, Answered
  <1>6. ASSUME NEW r \in Request, Accept(r)
        PROVE  LimitsTypeOK'
    <2>1. << >> \in Seq(Nat) /\ 0 # MaxFailures
      BY <1>0
    <2> QED BY <1>0, <1>6, <2>1 DEF LimitsTypeOK, Accept, Answered
  <1>7. ASSUME NEW r \in Request, StoreError(r)
        PROVE  LimitsTypeOK'
    BY <1>0, <1>7 DEF LimitsTypeOK, StoreError, Answered, FailuresLeft
  <1>8. ASSUME NEW r \in Request, RejectWrong(r)
        PROVE  LimitsTypeOK'
    <2>1. wrong' \in Seq(Nat)
      BY <1>8, WrongStep
    <2>2. failures' = FailuresLeft + 1 /\ FailuresLeft \in Nat /\ FailuresLeft < MaxFailures
      BY <1>0, <1>8 DEF LimitsTypeOK, RejectWrong, FailuresLeft
    <2>3. lockedUntil' = IF FailuresLeft + 1 >= MaxFailures THEN clock + Lockout ELSE None
      BY <1>8 DEF RejectWrong, LockedFrom
    <2>4. /\ failures' \in 0..MaxFailures /\ lockedUntil' \in Nat \union {None}
          /\ (lockedUntil' # None <=> failures' = MaxFailures)
      <3>1. clock \in Nat
        BY DEF LimitsTypeOK
      <3> QED BY ONLY <1>0, <2>2, <2>3, <3>1 DEF None
    <2> QED BY <1>8, <2>1, <2>4 DEF LimitsTypeOK, RejectWrong, Answered
  <1> QED BY <1>1, <1>2, <1>3, <1>4, <1>5, <1>6, <1>7, <1>8 DEF LimitsNext, CheckPairingCode

LEMMA InitIInv == LimitsInit => IInv
  <1> SUFFICES ASSUME LimitsInit PROVE IInv
    OBVIOUS
  <1>0. /\ {MaxFailures, Lockout, MaxAdmitted, Window} \subseteq Nat \ {0}
        /\ Len(<< >>) = 0 /\ << >> \in Seq(Nat)
    BY LimitsPositive
  <1>1. LimitsTypeOK
    BY <1>0 DEF LimitsInit, LimitsTypeOK, None
  <1>2. Paced
    BY <1>0 DEF LimitsInit, Paced, InOrder, NoneAfter, Past, ReadBefore, LastLockout, GuessesPaced, None
  <1>3. Windows
    BY <1>0 DEF LimitsInit, Windows, InOrder, NoneAfter, Past
  <1> QED BY <1>1, <1>2, <1>3 DEF IInv

\* In every reachable state the last lockout and the last windows lie where
\* the counters say.
THEOREM Invariance == LimitsSpec => []IInv
  <1>1. IInv /\ [LimitsNext]_limitsVars => IInv'
    BY PacedStep, WindowsStep, TypeStep DEF IInv
  <1> QED BY InitIInv, <1>1, PTL DEF LimitsSpec

\* The limiters keep their types: a lockout stands exactly while the failures
\* are at their cap, and neither counter passes its cap.
THEOREM LimitersTypeCorrect == LimitsSpec => []LimitsTypeOK
  BY Invariance, PTL DEF IInv

\* With no right code between them, the last of MaxFailures + 1 wrong pairing
\* codes is compared at least Lockout after the first, whichever threads bring
\* them and however long each waited for the mutex.
THEOREM GuessesArePaced == LimitsSpec => []GuessesPaced
  BY Invariance, PTL DEF IInv, Paced

\* Of any 2 * MaxAdmitted registrations in a row the last is admitted at least
\* Window after the first.
THEOREM RegistrationsArePaced == LimitsSpec => []RegistrationsPaced
  <1>1. IInv => RegistrationsPaced
    BY WindowsImplyPaced DEF IInv
  <1> QED BY Invariance, <1>1, PTL
=============================================================================

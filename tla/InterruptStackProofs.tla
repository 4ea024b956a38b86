------------------------ MODULE InterruptStackProofs ------------------------
(***************************************************************************)
(* Proofs about InterruptStack, for every number of stacks and interrupts  *)
(* and every depth of nesting: get_interrupt_new never reads an empty      *)
(* stack, and a call chain is marked with its innermost open interrupt.    *)
(***************************************************************************)
EXTENDS InterruptStack, SequenceTheorems, TLAPS

\* Before the guest has booted, none of its tasks has an interrupt open.
QuietBoot == ~booted => \A b \in Stacks : ints[b] = <<>>

IInv == TypeOK /\ NoEmptyStack /\ OpenInterruptsOnTop /\ QuietBoot

-----------------------------------------------------------------------------
(* The three operations on g_interrupt_esp.                                *)

\* What is left of a sequence without its last element.
LEMMA FrontFacts ==
  ASSUME NEW S, NEW s \in Seq(S), s # <<>>
  PROVE  LET r == SubSeq(s, 1, Len(s) - 1)
         IN  /\ Len(s) \in Nat \ {0}
             /\ r \in Seq(S)
             /\ Len(r) = Len(s) - 1
             /\ \A i \in 1 .. Len(s) - 1 : r[i] = s[i]
             /\ r = <<>> <=> Len(s) = 1
<1> DEFINE r == SubSeq(s, 1, Len(s) - 1)
<1>1. Len(s) \in Nat \ {0} /\ Len(s) - 1 \in Int
  BY EmptySeq
<1>2. \A i \in 1 .. Len(s) - 1 : s[i] \in S
  BY <1>1, LenProperties
<1>3. /\ r \in Seq(S)
      /\ Len(r) = IF 1 <= Len(s) - 1 THEN (Len(s) - 1) - 1 + 1 ELSE 0
      /\ \A i \in 1 .. (Len(s) - 1) - 1 + 1 : r[i] = s[1 + i - 1]
  BY <1>1, <1>2, SubSeqProperties
<1> HIDE DEF r
<1>4. Len(r) = Len(s) - 1
  <2>1. ASSUME NEW n \in Nat \ {0}
        PROVE  (IF 1 <= n - 1 THEN (n - 1) - 1 + 1 ELSE 0) = n - 1
    OBVIOUS
  <2> QED
    BY <1>1, <1>3, <2>1
<1>5. \A i \in 1 .. Len(s) - 1 : r[i] = s[i]
  BY <1>1, <1>3
<1>6. r = <<>> <=> Len(s) = 1
  BY <1>1, <1>3, <1>4, EmptySeq
<1> QED
  BY <1>1, <1>3, <1>4, <1>5, <1>6 DEF r

\* The entries of a stack are a sequence.
LEMMA EntriesType ==
  ASSUME TypeOK, NEW b \in Stacks
  PROVE  Entries(b) \in Seq(IntNums)
BY DEF TypeOK, Entries

\* A push adds one entry on top of one stack.
LEMMA Push ==
  ASSUME TypeOK, NoEmptyStack, NEW b \in Stacks, NEW n \in IntNums,
         add_interrupt_esp(b, n)
  PROVE  /\ stk' \in [Stacks -> Seq(IntNums) \cup {Absent}]
         /\ NoEmptyStack'
         /\ Entries(b)' = Append(Entries(b), n)
         /\ \A c \in Stacks \ {b} : Entries(c)' = Entries(c)
<1>1. Append(Entries(b), n) \in Seq(IntNums) /\ Append(Entries(b), n) # <<>>
  BY EntriesType, AppendProperties
<1>2. stk' = [stk EXCEPT ![b] = Append(Entries(b), n)]
  BY DEF add_interrupt_esp
<1>3. stk' \in [Stacks -> Seq(IntNums) \cup {Absent}]
  BY <1>1, <1>2 DEF TypeOK
<1>4. stk'[b] = Append(Entries(b), n) /\ \A c \in Stacks \ {b} : stk'[c] = stk[c]
  BY <1>2 DEF TypeOK
<1>5. NoEmptyStack'
  BY <1>1, <1>4 DEF NoEmptyStack
<1>6. Entries(b)' = Append(Entries(b), n)
  BY <1>1, <1>4, AbsentAssumption DEF Entries
<1>7. \A c \in Stacks \ {b} : Entries(c)' = Entries(c)
  BY <1>4 DEF Entries
<1> QED
  BY <1>3, <1>5, <1>6, <1>7

\* A pop takes the top entry of one stack, if it has one.
LEMMA Pop ==
  ASSUME TypeOK, NoEmptyStack, NEW b \in Stacks, delete_interrupt_esp(b)
  PROVE  /\ stk' \in [Stacks -> Seq(IntNums) \cup {Absent}]
         /\ NoEmptyStack'
         /\ IF Entries(b) = <<>> THEN Entries(b)' = <<>>
            ELSE Entries(b)' = SubSeq(Entries(b), 1, Len(Entries(b)) - 1)
         /\ \A c \in Stacks \ {b} : Entries(c)' = Entries(c)
<1>1. CASE stk[b] = Absent
  <2>1. stk' = stk
    BY <1>1 DEF delete_interrupt_esp
  <2> QED
    BY <1>1, <2>1 DEF TypeOK, NoEmptyStack, Entries
<1>2. CASE stk[b] # Absent
  <2> DEFINE s == stk[b]
             r == SubSeq(s, 1, Len(s) - 1)
  <2>1. s \in Seq(IntNums) /\ s # <<>> /\ Entries(b) = s
    BY <1>2 DEF TypeOK, NoEmptyStack, Entries
  <2>2. stk' = [stk EXCEPT ![b] = IF Len(s) = 1 THEN Absent ELSE r]
    BY <1>2, <2>1 DEF delete_interrupt_esp
  <2>4. r \in Seq(IntNums) /\ (r = <<>> <=> Len(s) = 1)
    BY <2>1, FrontFacts
  <2> HIDE DEF s, r
  <2>7. stk' \in [Stacks -> Seq(IntNums) \cup {Absent}]
    BY <2>2, <2>4 DEF TypeOK
  <2>8. /\ stk'[b] = IF Len(s) = 1 THEN Absent ELSE r
        /\ \A c \in Stacks \ {b} : stk'[c] = stk[c]
    BY <2>2 DEF TypeOK
  <2>9. NoEmptyStack'
    BY <2>4, <2>8, EmptySeq, AbsentAssumption DEF NoEmptyStack
  <2>10. Entries(b)' = r
    BY <2>4, <2>8, AbsentAssumption DEF Entries
  <2>11. \A c \in Stacks \ {b} : Entries(c)' = Entries(c)
    BY <2>8 DEF Entries
  <2> QED
    BY <2>1, <2>7, <2>9, <2>10, <2>11 DEF r
<1> QED
  BY <1>1, <1>2

\* One stack of OpenInterruptsOnTop: e on top of k leftovers is q.
OnTop(e, k, q) ==
  /\ Len(e) = k + Len(q)
  /\ \A i \in 1 .. Len(q) : e[k + i] = q[i]

\* A push that opens an interrupt.
LEMMA PushOnTop ==
  ASSUME NEW e \in Seq(IntNums), NEW k \in Nat, NEW q \in Seq(IntNums),
         NEW n \in IntNums, OnTop(e, k, q)
  PROVE  OnTop(Append(e, n), k, Append(q, n))
<1> DEFINE e1 == Append(e, n)
           q1 == Append(q, n)
<1>1. Len(e) \in Nat /\ Len(q) \in Nat /\ Len(e) = k + Len(q)
  BY LenProperties DEF OnTop
<1>2. /\ Len(e1) = Len(e) + 1 /\ Len(q1) = Len(q) + 1
      /\ \A i \in 1 .. Len(e) : e1[i] = e[i]
      /\ \A i \in 1 .. Len(q) : q1[i] = q[i]
      /\ e1[Len(e) + 1] = n /\ q1[Len(q) + 1] = n
  BY AppendProperties
<1> HIDE DEF e1, q1
<1>3. ASSUME NEW i \in 1 .. Len(q1) PROVE e1[k + i] = q1[i]
  <2>1. CASE i = Len(q) + 1
    BY <1>1, <1>2, <2>1
  <2>2. CASE i # Len(q) + 1
    <3>1. i \in 1 .. Len(q) /\ k + i \in 1 .. Len(e)
      BY <1>1, <1>2, <2>2
    <3>2. e[k + i] = q[i]
      BY <3>1 DEF OnTop
    <3> QED
      BY <1>2, <3>1, <3>2
  <2> QED
    BY <2>1, <2>2
<1>4. OnTop(e1, k, q1)
  BY <1>1, <1>2, <1>3 DEF OnTop
<1> QED
  BY <1>4 DEF e1, q1

\* A push that no interrupt of a task owns, with none open.
LEMMA PushLeft ==
  ASSUME NEW e \in Seq(IntNums), NEW k \in Nat, NEW n \in IntNums,
         OnTop(e, k, <<>>)
  PROVE  OnTop(Append(e, n), k + 1, <<>>)
BY DEF OnTop

\* A pop that ends an interrupt.
LEMMA PopOnTop ==
  ASSUME NEW e \in Seq(IntNums), NEW k \in Nat, NEW q \in Seq(IntNums),
         OnTop(e, k, q), q # <<>>
  PROVE  /\ e # <<>>
         /\ OnTop(SubSeq(e, 1, Len(e) - 1), k, SubSeq(q, 1, Len(q) - 1))
<1> DEFINE e1 == SubSeq(e, 1, Len(e) - 1)
           q1 == SubSeq(q, 1, Len(q) - 1)
<1>1. Len(q) \in Nat \ {0} /\ Len(e) \in Nat /\ Len(e) = k + Len(q)
  BY EmptySeq, LenProperties DEF OnTop
<1>2. e # <<>>
  BY <1>1, EmptySeq
<1>3. /\ Len(e1) = Len(e) - 1 /\ \A i \in 1 .. Len(e) - 1 : e1[i] = e[i]
      /\ Len(q1) = Len(q) - 1 /\ \A i \in 1 .. Len(q) - 1 : q1[i] = q[i]
  BY <1>2, FrontFacts
<1> HIDE DEF e1, q1
<1>4. ASSUME NEW i \in 1 .. Len(q1) PROVE e1[k + i] = q1[i]
  <2>1. i \in 1 .. Len(q) - 1 /\ k + i \in 1 .. Len(e) - 1 /\ i \in 1 .. Len(q)
    BY <1>1, <1>3
  <2>2. e1[k + i] = e[k + i] /\ q1[i] = q[i]
    BY <1>3, <2>1
  <2> QED
    BY <2>1, <2>2 DEF OnTop
<1>5. OnTop(e1, k, q1)
  BY <1>1, <1>3, <1>4 DEF OnTop
<1> QED
  BY <1>2, <1>5 DEF e1, q1

-----------------------------------------------------------------------------
(* The specification.                                                      *)

\* OpenInterruptsOnTop, stack by stack.
LEMMA OnTopForm ==
  OpenInterruptsOnTop <=> \A b \in Stacks : OnTop(Entries(b), left[b], ints[b])
BY DEF OpenInterruptsOnTop, OnTop

\* What a step does to one stack b, with nothing else changed on the others.
LEMMA OnTopStep ==
  ASSUME IInv, NEW b \in Stacks,
         \A c \in Stacks \ {b} : /\ Entries(c)' = Entries(c)
                                 /\ left'[c] = left[c] /\ ints'[c] = ints[c],
         OnTop(Entries(b)', left'[b], ints'[b])
  PROVE  OpenInterruptsOnTop'
<1>1. \A c \in Stacks : OnTop(Entries(c)', left'[c], ints'[c])
  <2> TAKE c \in Stacks
  <2>1. CASE c = b
    BY <2>1
  <2>2. CASE c # b
    <3>1. OnTop(Entries(c), left[c], ints[c])
      BY OnTopForm DEF IInv
    <3>2. Entries(c)' = Entries(c) /\ left'[c] = left[c] /\ ints'[c] = ints[c]
      BY <2>2
    <3> QED
      BY <3>1, <3>2
  <2> QED
    BY <2>1, <2>2
<1> QED
  BY <1>1 DEF OpenInterruptsOnTop, OnTop

\* The initial state satisfies the inductive invariant.
LEMMA InitInv == Init => IInv
<1> SUFFICES ASSUME Init PROVE IInv
  OBVIOUS
<1>1. TypeOK
  BY EmptySeq DEF Init, TypeOK
<1>2. NoEmptyStack
  BY EmptySeq, AbsentAssumption DEF Init, NoEmptyStack
<1>3. OpenInterruptsOnTop
  <2>1. \A b \in Stacks : Entries(b) = <<>> /\ left[b] = 0 /\ ints[b] = <<>>
    BY DEF Init, Entries
  <2>2. OnTop(<<>>, 0, <<>>)
    <3>1. Len(<<>>) = 0
      BY EmptySeq
    <3> QED
      BY <3>1 DEF OnTop
  <2>3. \A b \in Stacks : OnTop(Entries(b), left[b], ints[b])
    BY <2>1, <2>2, Zenon
  <2> QED
    BY <2>3 DEF OpenInterruptsOnTop, OnTop
<1>4. QuietBoot
  BY DEF Init, QuietBoot
<1> QED
  BY <1>1, <1>2, <1>3, <1>4 DEF IInv

\* A pop with no open interrupt takes a leftover, if there is one.
LEMMA PopLeft ==
  ASSUME NEW e \in Seq(IntNums), NEW k \in Nat, OnTop(e, k, <<>>)
  PROVE  /\ e = <<>> <=> k = 0
         /\ e # <<>> => OnTop(SubSeq(e, 1, Len(e) - 1), k - 1, <<>>)
<1>1. Len(e) = k /\ Len(<<>>) = 0
  BY EmptySeq, LenProperties DEF OnTop
<1>2. e = <<>> <=> k = 0
  BY <1>1, EmptySeq
<1>3. ASSUME e # <<>> PROVE OnTop(SubSeq(e, 1, Len(e) - 1), k - 1, <<>>)
  <2>1. Len(SubSeq(e, 1, Len(e) - 1)) = Len(e) - 1
    BY <1>3, FrontFacts
  <2> QED
    BY <1>1, <2>1 DEF OnTop
<1> QED
  BY <1>2, <1>3

\* The unmatched pop of BootIret and SysIret.
LEMMA UnmatchedPop ==
  ASSUME IInv, NEW b \in Stacks, ints[b] = <<>>, delete_interrupt_esp(b),
         left' = [left EXCEPT ![b] = IF @ = 0 THEN 0 ELSE @ - 1],
         UNCHANGED ints
  PROVE  /\ stk' \in [Stacks -> Seq(IntNums) \cup {Absent}]
         /\ NoEmptyStack' /\ OpenInterruptsOnTop'
         /\ left' \in [Stacks -> Nat]
<1>1. TypeOK /\ NoEmptyStack /\ left[b] \in Nat /\ Entries(b) \in Seq(IntNums)
  BY EntriesType DEF IInv, TypeOK
<1>2. /\ stk' \in [Stacks -> Seq(IntNums) \cup {Absent}]
      /\ NoEmptyStack'
      /\ IF Entries(b) = <<>> THEN Entries(b)' = <<>>
         ELSE Entries(b)' = SubSeq(Entries(b), 1, Len(Entries(b)) - 1)
      /\ \A c \in Stacks \ {b} : Entries(c)' = Entries(c)
  BY <1>1, Pop
<1>3. /\ left'[b] = IF left[b] = 0 THEN 0 ELSE left[b] - 1
      /\ \A c \in Stacks \ {b} : left'[c] = left[c]
      /\ left' \in [Stacks -> Nat]
  BY <1>1 DEF TypeOK
<1>4. OnTop(Entries(b), left[b], <<>>)
  BY OnTopForm DEF IInv
<1>5. OnTop(Entries(b)', left'[b], ints'[b])
  <2>1. CASE Entries(b) = <<>>
    <3>1. left[b] = 0
      BY <1>1, <1>4, <2>1, PopLeft
    <3> QED
      BY <1>2, <1>3, <1>4, <2>1, <3>1
  <2>2. CASE Entries(b) # <<>>
    <3>1. /\ left[b] # 0
          /\ OnTop(SubSeq(Entries(b), 1, Len(Entries(b)) - 1), left[b] - 1, <<>>)
      BY <1>1, <1>4, <2>2, PopLeft
    <3> QED
      BY <1>2, <1>3, <2>2, <3>1
  <2> QED
    BY <2>1, <2>2
<1>6. OpenInterruptsOnTop'
  BY <1>2, <1>3, <1>5, OnTopStep
<1> QED
  BY <1>2, <1>3, <1>6

\* Every step preserves the inductive invariant.
LEMMA NextInv ==
  ASSUME IInv, [Next]_vars
  PROVE  IInv'
<1> TypeOK /\ NoEmptyStack /\ OpenInterruptsOnTop /\ QuietBoot
  BY DEF IInv
<1>1. CASE UNCHANGED <<stk, booted, ints, left>> /\ cur' \in Stacks
           /\ mode' \in [Stacks -> {"free", "user", "sys"}]
  BY <1>1 DEF IInv, TypeOK, NoEmptyStack, OpenInterruptsOnTop, QuietBoot, Entries
<1>2. ASSUME NEW b \in Stacks, NEW n \in IntNums, BootInterrupt(b, n)
      PROVE  IInv'
  <2>1. /\ ~booted /\ add_interrupt_esp(b, n)
        /\ left' = [left EXCEPT ![b] = @ + 1]
        /\ UNCHANGED <<booted, cur, mode, ints>>
    BY <1>2 DEF BootInterrupt
  <2>2. /\ stk' \in [Stacks -> Seq(IntNums) \cup {Absent}]
        /\ NoEmptyStack'
        /\ Entries(b)' = Append(Entries(b), n)
        /\ \A c \in Stacks \ {b} : Entries(c)' = Entries(c)
    BY <2>1, Push
  <2>3. ints[b] = <<>> /\ left[b] \in Nat /\ Entries(b) \in Seq(IntNums)
    BY <2>1, EntriesType DEF QuietBoot, TypeOK
  <2>4. left'[b] = left[b] + 1 /\ \A c \in Stacks \ {b} : left'[c] = left[c]
    BY <2>1 DEF TypeOK
  <2>5. OnTop(Entries(b), left[b], <<>>)
    BY <2>3, OnTopForm
  <2>6. OnTop(Entries(b)', left'[b], ints'[b])
    BY <2>1, <2>2, <2>3, <2>4, <2>5, PushLeft
  <2>7. OpenInterruptsOnTop'
    BY <2>1, <2>2, <2>4, <2>6, OnTopStep
  <2>8. left' \in [Stacks -> Nat]
    BY <2>1, <2>3 DEF TypeOK
  <2>9. TypeOK'
    BY <2>1, <2>2, <2>8 DEF TypeOK
  <2>10. QuietBoot'
    BY <2>1 DEF QuietBoot
  <2> QED
    BY <2>2, <2>7, <2>9, <2>10 DEF IInv
<1>3. ASSUME NEW b \in Stacks, BootIret(b)
      PROVE  IInv'
  <2>1. /\ ~booted /\ delete_interrupt_esp(b)
        /\ left' = [left EXCEPT ![b] = IF @ = 0 THEN 0 ELSE @ - 1]
        /\ UNCHANGED <<booted, cur, mode, ints>>
    BY <1>3 DEF BootIret
  <2>2. ints[b] = <<>>
    BY <2>1 DEF QuietBoot
  <2>3. /\ stk' \in [Stacks -> Seq(IntNums) \cup {Absent}]
        /\ NoEmptyStack' /\ OpenInterruptsOnTop'
        /\ left' \in [Stacks -> Nat]
    BY <2>1, <2>2, UnmatchedPop
  <2> QED
    BY <2>1, <2>3 DEF IInv, TypeOK, QuietBoot
<1>4. CASE Boot
  BY <1>4 DEF Boot, IInv, TypeOK, NoEmptyStack, OpenInterruptsOnTop, QuietBoot, Entries
<1>5. ASSUME NEW n \in IntNums, Interrupt(n)
      PROVE  IInv'
  <2> PICK k \in Stacks : k = cur
    BY DEF TypeOK
  <2>1. /\ booted /\ add_interrupt_esp(k, n)
        /\ ints' = [ints EXCEPT ![k] = Append(@, n)]
        /\ UNCHANGED <<booted, cur, mode, left>>
    BY <1>5 DEF Interrupt
  <2>2. /\ stk' \in [Stacks -> Seq(IntNums) \cup {Absent}]
        /\ NoEmptyStack'
        /\ Entries(k)' = Append(Entries(k), n)
        /\ \A c \in Stacks \ {k} : Entries(c)' = Entries(c)
    BY <2>1, Push
  <2>3. /\ ints[k] \in Seq(IntNums) /\ left[k] \in Nat
        /\ Entries(k) \in Seq(IntNums)
    BY <2>1, EntriesType DEF TypeOK
  <2>4. /\ ints'[k] = Append(ints[k], n)
        /\ \A c \in Stacks \ {k} : ints'[c] = ints[c]
    BY <2>1 DEF TypeOK
  <2>5. OnTop(Entries(k), left[k], ints[k])
    BY <2>1, OnTopForm
  <2>6. OnTop(Entries(k)', left'[k], ints'[k])
    BY <2>1, <2>2, <2>3, <2>4, <2>5, PushOnTop
  <2>7. OpenInterruptsOnTop'
    BY <2>1, <2>2, <2>4, <2>6, OnTopStep
  <2>8. Append(ints[k], n) \in Seq(IntNums)
    BY <2>3, AppendProperties
  <2>9. TypeOK' /\ QuietBoot'
    BY <2>1, <2>2, <2>8 DEF TypeOK, QuietBoot
  <2> QED
    BY <2>2, <2>7, <2>9 DEF IInv
<1>6. CASE Iret
  <2> PICK k \in Stacks : k = cur
    BY DEF TypeOK
  <2>1. /\ booted /\ ints[k] # <<>> /\ delete_interrupt_esp(k)
        /\ ints' = [ints EXCEPT ![k] = SubSeq(@, 1, Len(@) - 1)]
        /\ UNCHANGED <<booted, cur, mode, left>>
    BY <1>6 DEF Iret
  <2>2. /\ stk' \in [Stacks -> Seq(IntNums) \cup {Absent}]
        /\ NoEmptyStack'
        /\ IF Entries(k) = <<>> THEN Entries(k)' = <<>>
           ELSE Entries(k)' = SubSeq(Entries(k), 1, Len(Entries(k)) - 1)
        /\ \A c \in Stacks \ {k} : Entries(c)' = Entries(c)
    BY <2>1, Pop
  <2>3. /\ ints[k] \in Seq(IntNums) /\ left[k] \in Nat
        /\ Entries(k) \in Seq(IntNums)
    BY <2>1, EntriesType DEF TypeOK
  <2>4. /\ ints'[k] = SubSeq(ints[k], 1, Len(ints[k]) - 1)
        /\ \A c \in Stacks \ {k} : ints'[c] = ints[c]
    BY <2>1 DEF TypeOK
  <2>5. OnTop(Entries(k), left[k], ints[k])
    BY <2>1, OnTopForm
  <2>6. /\ Entries(k) # <<>>
        /\ OnTop(SubSeq(Entries(k), 1, Len(Entries(k)) - 1), left[k],
                 SubSeq(ints[k], 1, Len(ints[k]) - 1))
    BY <2>1, <2>3, <2>5, PopOnTop
  <2>7. OnTop(Entries(k)', left'[k], ints'[k])
    BY <2>1, <2>2, <2>4, <2>6
  <2>8. OpenInterruptsOnTop'
    BY <2>1, <2>2, <2>4, <2>7, OnTopStep
  <2>9. SubSeq(ints[k], 1, Len(ints[k]) - 1) \in Seq(IntNums)
    BY <2>1, <2>3, FrontFacts
  <2>10. TypeOK' /\ QuietBoot'
    BY <2>1, <2>2, <2>9 DEF TypeOK, QuietBoot
  <2> QED
    BY <2>2, <2>8, <2>10 DEF IInv
<1>7. CASE SysIret
  <2> PICK k \in Stacks : k = cur
    BY DEF TypeOK
  <2>1. /\ booted /\ ints[k] = <<>> /\ delete_interrupt_esp(k)
        /\ left' = [left EXCEPT ![k] = IF @ = 0 THEN 0 ELSE @ - 1]
        /\ mode' = [mode EXCEPT ![k] = "user"]
        /\ UNCHANGED <<booted, cur, ints>>
    BY <1>7 DEF SysIret
  <2>2. /\ stk' \in [Stacks -> Seq(IntNums) \cup {Absent}]
        /\ NoEmptyStack' /\ OpenInterruptsOnTop'
        /\ left' \in [Stacks -> Nat]
    BY <2>1, UnmatchedPop
  <2> QED
    BY <2>1, <2>2 DEF IInv, TypeOK, QuietBoot
<1>8. CASE SysEnter \/ SysExit
  BY <1>1, <1>8 DEF SysEnter, SysExit, TypeOK
<1>9. ASSUME NEW b \in Stacks, Switch(b) \/ Fork(b)
      PROVE  IInv'
  BY <1>1, <1>9 DEF Switch, Fork, TypeOK
<1>10. ASSUME NEW b \in Stacks, Exit(b)
       PROVE  IInv'
  <2> PICK k \in Stacks : k = cur
    BY DEF TypeOK
  <2>1. /\ booted
        /\ left' = [left EXCEPT ![k] = @ + Len(ints[k])]
        /\ ints' = [ints EXCEPT ![k] = <<>>]
        /\ mode' = [mode EXCEPT ![k] = "free"] /\ cur' = b
        /\ UNCHANGED <<stk, booted>>
    BY <1>10 DEF Exit
  <2>2. ints[k] \in Seq(IntNums) /\ left[k] \in Nat /\ Len(ints[k]) \in Nat
    BY LenProperties DEF TypeOK
  <2>3. /\ left'[k] = left[k] + Len(ints[k]) /\ ints'[k] = <<>>
        /\ \A c \in Stacks \ {k} : left'[c] = left[c] /\ ints'[c] = ints[c]
    BY <2>1 DEF TypeOK
  <2>4. \A c \in Stacks : Entries(c)' = Entries(c)
    BY <2>1 DEF Entries
  <2>5. OnTop(Entries(k)', left'[k], ints'[k])
    <3>1. Len(Entries(k)) = left[k] + Len(ints[k])
      BY DEF OpenInterruptsOnTop
    <3>2. Len(<<>>) = 0
      BY EmptySeq
    <3> QED
      BY <2>2, <2>3, <2>4, <3>1, <3>2 DEF OnTop
  <2>6. OpenInterruptsOnTop'
    BY <2>3, <2>4, <2>5, OnTopStep
  <2>7. TypeOK'
    BY <2>1, <2>2, EmptySeq DEF TypeOK
  <2>8. NoEmptyStack' /\ QuietBoot'
    BY <2>1 DEF NoEmptyStack, QuietBoot
  <2> QED
    BY <2>6, <2>7, <2>8 DEF IInv
<1>11. CASE UNCHANGED vars
  BY <1>1, <1>11 DEF vars, TypeOK
<1> QED
  BY <1>2, <1>3, <1>4, <1>5, <1>6, <1>7, <1>8, <1>9, <1>10, <1>11 DEF Next

\* The inductive invariant holds in every reachable state.
LEMMA Invariance == Spec => []IInv
BY InitInv, NextInv, PTL DEF Spec

\* top() in get_interrupt_new is never called on an empty stack.
THEOREM TopDefined == Spec => []NoEmptyStack
<1>1. IInv => NoEmptyStack
  BY DEF IInv
<1> QED
  BY <1>1, Invariance, PTL

\* The open interrupts of a stack are its topmost entries.
THEOREM OpenOnTop == Spec => []OpenInterruptsOnTop
<1>1. IInv => OpenInterruptsOnTop
  BY DEF IInv
<1> QED
  BY <1>1, Invariance, PTL

\* A call chain carries the number of the innermost open interrupt, and none
\* outside interrupts on a stack without leftovers.
THEOREM MarkerCorrect == Spec => []MarkerRight
<1>1. IInv => MarkerRight
  <2> SUFFICES ASSUME IInv, NEW b \in Stacks
               PROVE  /\ ints[b] # <<>> => get_interrupt_new(b) = ints[b][Len(ints[b])]
                      /\ ints[b] = <<>> /\ left[b] = 0 => get_interrupt_new(b) = Absent
    BY DEF MarkerRight
  <2>1. /\ ints[b] \in Seq(IntNums) /\ Len(ints[b]) \in Nat /\ left[b] \in Nat
        /\ Entries(b) \in Seq(IntNums) /\ Len(<<>>) = 0
    BY EntriesType, LenProperties, EmptySeq DEF IInv, TypeOK
  <2>2. /\ Len(Entries(b)) = left[b] + Len(ints[b])
        /\ \A i \in 1 .. Len(ints[b]) : Entries(b)[left[b] + i] = ints[b][i]
    BY DEF IInv, OpenInterruptsOnTop
  <2>3. ASSUME ints[b] # <<>>
        PROVE  get_interrupt_new(b) = ints[b][Len(ints[b])]
    <3>1. Len(ints[b]) \in 1 .. Len(ints[b])
      BY <2>1, <2>3, EmptySeq
    <3>2. stk[b] # Absent
      BY <2>1, <2>2, <3>1 DEF Entries
    <3> QED
      BY <2>2, <3>1, <3>2 DEF get_interrupt_new, Entries
  <2>4. ASSUME ints[b] = <<>>, left[b] = 0
        PROVE  get_interrupt_new(b) = Absent
    <3>1. Len(Entries(b)) = 0
      BY <2>1, <2>2, <2>4
    <3>2. Entries(b) = <<>>
      BY <2>1, <3>1, EmptySeq
    <3> QED
      BY <3>2 DEF Entries, IInv, NoEmptyStack, get_interrupt_new
  <2> QED
    BY <2>3, <2>4
<1> QED
  BY <1>1, Invariance, PTL
=============================================================================

-------------------------- MODULE Random1to1_proofs ---------------------------
(***************************************************************************)
(* That the generated table is one to one, and printed whole, for every n  *)
(* and every length of a line.                                             *)
(***************************************************************************)
EXTENDS Random1to1, SequenceTheorems, TLAPS

\* While the table is filled its first i entries are known and nothing is
\* printed; while it is printed, i+j numbers have been.
FilledToI ==
  /\ pc = "draw" => /\ out = <<>> /\ j = 0
                    /\ \A a \in Index : v[a] # -1 <=> a < i
  /\ pc = "print" => Len(out) = i + j
PrintedSoFar == \A k \in 1 .. Len(out) :
  k <= n /\ out[k] = <<v[k-1], IF k = n THEN ")" ELSE ",">>
IInv == TypeOK /\ OneToOne /\ FilledToI /\ PrintedSoFar
        /\ (pc = "end" => Len(out) = n)

LEMMA InitIInv == Init => IInv
BY SizeAssumption DEF Init, IInv, TypeOK, OneToOne, FilledToI, PrintedSoFar, Index

\* A new number goes to the first free place.
LEMMA DrawStep == ASSUME IInv, NEW r \in Index, Draw(r) PROVE IInv'
<1> USE SizeAssumption DEF Index
<1>1. /\ pc = "draw" /\ i \in Index /\ out = <<>> /\ out' = <<>> /\ j = 0 /\ j' = 0
      /\ v \in [Index -> Index \cup {-1}]
      /\ v' = [v EXCEPT ![i] = r]
      /\ \A a \in Index : v[a] # r
  BY DEF IInv, TypeOK, FilledToI, Draw, Known
<1>2. /\ v' \in [Index -> Index \cup {-1}] /\ v'[i] = r
      /\ \A a \in Index : a # i => v'[a] = v[a]
  BY <1>1
<1>3. \/ i = n-1 /\ pc' = "print" /\ i' = 0
      \/ i # n-1 /\ pc' = "draw" /\ i' = i + 1
  BY <1>1 DEF Draw
<1>4. TypeOK'
  BY <1>1, <1>2, <1>3 DEF TypeOK, IInv
<1>5. \A a \in Index : v[a] # -1 <=> a < i
  BY <1>1 DEF IInv, FilledToI
<1>6. \A a, b \in Index : v[a] = v[b] /\ v[a] # -1 => a = b
  BY DEF IInv, OneToOne
<1>7. OneToOne'
  <2>1. \A a, b \in Index : v'[a] = v'[b] /\ v'[a] # -1 => a = b
    BY <1>1, <1>2, <1>6
  <2>2. pc' # "draw" => \A a \in Index : v'[a] # -1
    BY <1>1, <1>2, <1>3, <1>5
  <2> QED BY <2>1, <2>2 DEF OneToOne
<1>8. \A a \in Index : v'[a] # -1 <=> a < i + 1
  BY <1>1, <1>2, <1>5
<1>9. FilledToI'
  BY <1>1, <1>3, <1>8 DEF FilledToI
<1> QED
  BY <1>1, <1>3, <1>4, <1>7, <1>9 DEF IInv, PrintedSoFar

\* Where a line ends early, the table ends too.
LEMMA PrintStep == ASSUME IInv, PrintEntry PROVE IInv'
<1> USE SizeAssumption DEF Index
<1>1. /\ pc = "print" /\ v' = v
      /\ i \in Nat /\ j \in Nat /\ j < LINE /\ i + j < n
      /\ v \in [Index -> Index \cup {-1}]
  <2>1. pc = "print" /\ v' = v BY DEF PrintEntry
  <2>2. /\ i \in Nat /\ j \in 0 .. LINE-1 /\ (pc = "print" => i + j < n)
        /\ v \in [Index -> Index \cup {-1}]
    BY Zenon DEF IInv, TypeOK
  <2> QED BY <2>1, <2>2
<1>2. Len(out) = i + j
  BY <1>1 DEF IInv, FilledToI
<1>3. \/ NextLine /\ i' = i + LINE /\ j' = 0 /\ pc' = IF i' >= n THEN "end" ELSE "print"
      \/ ~NextLine /\ i' = i /\ j' = j + 1 /\ pc' = "print"
  BY DEF PrintEntry
<1>4. /\ i' \in Nat /\ j' \in Nat /\ j' < LINE
      /\ \/ i' + j' = i + j + 1 /\ i + j + 1 < n /\ pc' = "print"
         \/ i + j + 1 = n /\ pc' = "end"
  <2>1. LINE \in Nat /\ LINE > 0 /\ n \in Nat BY SizeAssumption
  <2> QED BY <1>1, <1>3, <2>1 DEF NextLine
<1> DEFINE Token == (Index \cup {-1}) \X {",", ";", ")"}
           last == <<v[i+j], Separator>>
<1>5. out \in Seq(Token) /\ last \in Token /\ out' = Append(out, last)
  <2>1. out \in Seq(Token) BY DEF IInv, TypeOK
  <2>2. v[i+j] \in Index \cup {-1} BY <1>1
  <2>3. Separator \in {",", ";", ")"} BY DEF Separator
  <2>4. out' = Append(out, last) BY DEF PrintEntry
  <2> QED BY <2>1, <2>2, <2>3, <2>4
<1>6. /\ out' \in Seq(Token)
      /\ Len(out') = Len(out) + 1
      /\ \A k \in 1 .. Len(out) : out'[k] = out[k]
      /\ out'[Len(out) + 1] = last
  <2> HIDE DEF Token, last
  <2> QED BY <1>5, AppendProperties
<1>7. TypeOK'
  <2>1. out' \in Seq(Token) BY <1>6
  <2>2. /\ pc' \in {"print", "end"} /\ (pc' = "print" => i' + j' < n)
        /\ i' \in Nat /\ j' \in 0 .. LINE-1
    <3> HIDE DEF Token, last
    <3>1. pc' \in {"print", "end"} /\ i' \in Nat BY <1>4
    <3>2. pc' = "print" => i' + j' < n BY <1>4
    <3>3. j' \in 0 .. LINE-1
      <4>1. j' \in Nat /\ j' < LINE BY <1>4
      <4>2. LINE \in Nat BY SizeAssumption
      <4> QED BY <4>1, <4>2
    <3> QED BY <3>1, <3>2, <3>3
  <2>3. v' \in [Index -> Index \cup {-1}] BY <1>1
  <2> QED BY <2>1, <2>2, <2>3 DEF TypeOK
<1>8. OneToOne'
  BY <1>1, <1>4 DEF OneToOne, IInv
<1>9. FilledToI' /\ (pc' = "end" => Len(out') = n)
  <2> HIDE DEF Token, last
  <2> QED BY <1>2, <1>4, <1>6 DEF FilledToI
<1>10. PrintedSoFar'
  <2> SUFFICES ASSUME NEW k \in 1 .. Len(out')
               PROVE k <= n /\ out'[k] = <<v'[k-1], IF k = n THEN ")" ELSE ",">>
    BY DEF PrintedSoFar
  <2>1. CASE k \in 1 .. Len(out)
    <3>1. k <= n /\ out[k] = <<v[k-1], IF k = n THEN ")" ELSE ",">>
      BY <2>1 DEF IInv, PrintedSoFar
    <3> HIDE DEF Token, last
    <3> QED BY <2>1, <3>1, <1>1, <1>6
  <2>2. CASE k = Len(out) + 1
    <3>1. k = i + j + 1 /\ k <= n /\ k - 1 = i + j
      BY <2>2, <1>1, <1>2, SizeAssumption
    <3>2. Separator = IF k = n THEN ")" ELSE ","
      BY <3>1, <1>1, SizeAssumption DEF Separator
    <3>3. out'[k] = <<v[i+j], Separator>>
      BY <2>2, <1>6
    <3> QED BY <3>1, <3>2, <3>3, <1>1
  <2>3. k \in 1 .. Len(out) \/ k = Len(out) + 1
    <3>1. Len(out') = Len(out) + 1 /\ Len(out) \in Nat
      <4> HIDE DEF Token, last
      <4> QED BY <1>1, <1>2, <1>6
    <3> QED BY <3>1
  <2> QED BY <2>1, <2>2, <2>3
<1> QED BY <1>7, <1>8, <1>9, <1>10 DEF IInv

LEMMA NextIInv == IInv /\ [Next]_vars => IInv'
<1> SUFFICES ASSUME IInv, [Next]_vars PROVE IInv'
  OBVIOUS
<1>1. ASSUME NEW r \in Index, Draw(r) PROVE IInv'
  BY <1>1, DrawStep
<1>2. ASSUME UNCHANGED vars PROVE IInv'
  BY <1>2 DEF vars, IInv, TypeOK, OneToOne, FilledToI, PrintedSoFar, Index
<1>3. CASE PrintEntry
  BY <1>3, PrintStep
<1> QED BY <1>1, <1>2, <1>3 DEF Next, DrawAgain

LEMMA SpecIInv == Spec => []IInv
BY InitIInv, NextIInv, PTL DEF Spec

\* The table stays inside its bounds while it is filled and printed.
THEOREM TypeCorrect == Spec => []TypeOK
<1>1. IInv => TypeOK BY DEF IInv
<1> QED BY <1>1, SpecIInv, PTL

\* "1:1": no number comes up twice, and the finished table has no gap.
THEOREM TableIsOneToOne == Spec => []OneToOne
<1>1. IInv => OneToOne BY DEF IInv
<1> QED BY <1>1, SpecIInv, PTL

\* The package holds every entry once and in order, the right separator after
\* each, for every n and every length of a line.
THEOREM TableIsPrintedWhole == Spec => []PrintedIsTheTable
<1>1. IInv => PrintedIsTheTable
  <2> SUFFICES ASSUME IInv PROVE PrintedIsTheTable
    OBVIOUS
  <2>1. DOMAIN out = 1 .. Len(out)
    <3> DEFINE Token == (Index \cup {-1}) \X {",", ";", ")"}
    <3>1. out \in Seq(Token) BY DEF IInv, TypeOK
    <3> HIDE DEF Token
    <3> QED BY <3>1
  <2> QED BY <2>1 DEF IInv, PrintedSoFar, PrintedIsTheTable
<1> QED BY <1>1, SpecIInv, PTL
\* Whatever numbers are drawn, and for every size, the package is a one to one
\* table at every moment of its making, as far as it is printed.
THEOREM PackageIsRight == Spec => []TableIsRight
BY TypeCorrect, TableIsOneToOne, TableIsPrintedWhole, PTL DEF TableIsRight
=============================================================================

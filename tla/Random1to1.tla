------------------------------ MODULE Random1to1 ------------------------------
(***************************************************************************)
(* random_1to1.py generates the table of a VHDL package that maps 0..n-1   *)
(* one to one to random numbers.  Each entry is drawn again until it is a  *)
(* number that is not in the table; then the entries are printed, LINE to  *)
(* a line.  A step is one draw, or one number printed.                     *)
(***************************************************************************)
EXTENDS Integers, Sequences

CONSTANTS n,                   \* 2**n_log2
          LINE                 \* entries to a line, 8
ASSUME SizeAssumption == n \in Nat \ {0} /\ LINE \in Nat \ {0}

VARIABLES
  pc,                          \* "draw", "print", "end"
  v,                           \* the table, -1 where it is not filled yet
  i, j,                        \* loop variables; i is the line's first entry when printing
  out                          \* what is printed: the numbers and what follows each
vars == <<pc, v, i, j, out>>

Index == 0 .. n-1

Init == /\ pc = "draw" /\ i = 0 /\ j = 0
        /\ v = [k \in Index |-> -1]
        /\ out = <<>>

KnownLast(r)  == i > 0 /\ v[i-1] = r       \* only the last number looked at
Known(r)      == \E k \in Index : v[k] = r  \* r in v
\* random.randrange gave r: if it is in the table already, the loop goes round.
Draw(r) ==
  /\ pc = "draw" /\ ~Known(r)
  /\ v' = [v EXCEPT ![i] = r]
  /\ IF i = n-1 THEN pc' = "print" /\ i' = 0 ELSE i' = i + 1 /\ UNCHANGED pc
  /\ UNCHANGED <<j, out>>
DrawAgain(r) == pc = "draw" /\ Known(r) /\ UNCHANGED vars

Separator == IF i+j = n-1 THEN ")" ELSE ","
NextLineEarly == j = LINE-2 \/ i+j = n-1
NextLineLate  == j = LINE \/ i+j = n-1
NextLine      == j = LINE-1 \/ i+j = n-1
PrintEntry ==
  /\ pc = "print"
  /\ out' = Append(out, <<v[i+j], Separator>>)
  /\ IF NextLine THEN i' = i + LINE /\ j' = 0 ELSE j' = j + 1 /\ UNCHANGED i
  /\ pc' = IF NextLine /\ i' >= n THEN "end" ELSE "print"
  /\ UNCHANGED v

Next == (\E r \in Index : Draw(r) \/ DrawAgain(r)) \/ PrintEntry

Spec == Init /\ [][Next]_vars

------------------------------------------------------------------------------
(* Properties.                                                             *)

\* The table is filled from its start, and its index stays inside it.
TypeOK ==
  /\ pc \in {"draw", "print", "end"}
  /\ i \in Nat /\ j \in 0 .. LINE-1
  /\ v \in [Index -> Index \cup {-1}]
  /\ out \in Seq((Index \cup {-1}) \X {",", ";", ")"})
  /\ pc = "draw" => i < n
  /\ pc = "print" => i + j < n

\* "1:1": no number is in the table twice, and a printed table has no gap.
OneToOne ==
  /\ \A a, b \in Index : v[a] = v[b] /\ v[a] # -1 => a = b
  /\ pc # "draw" => \A a \in Index : v[a] # -1

\* The package holds the table: every entry once and in order, whatever n is
\* to eight, with a comma after each but the last.
PrintedIsTheTable ==
  /\ \A k \in DOMAIN out : /\ k <= n
                           /\ out[k] = <<v[k-1], IF k = n THEN ")" ELSE ",">>
  /\ pc = "end" => Len(out) = n

\* The generated package is a one to one table at every moment of its making.
TableIsRight == TypeOK /\ OneToOne /\ PrintedIsTheTable
=============================================================================

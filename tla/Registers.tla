------------------------------ MODULE Registers ------------------------------
(***************************************************************************)
(* The values of registers (isla-lib/src/register.rs).  A value is a       *)
(* function from the fields of the register to pairs [v, sym]: what it is  *)
(* on the path followed, and whether the program holds it as an SMT        *)
(* variable.  A choice the solver leaves open is made when the variable is *)
(* declared, so every operation that declares one has a set of outcomes.   *)
(***************************************************************************)
EXTENDS Naturals, Sequences

CONSTANTS
  Fields,      \* the fields of every register
  Bits         \* what a field may hold

NoValue == [f \in {} |-> 0]

FieldValues == [v : Bits, sym : BOOLEAN]
Values == [Fields -> FieldValues]

\* The value with other contents, held in new SMT variables.
Symbolic(value) == [f \in Fields |-> [v |-> value[f].v, sym |-> TRUE]]

Contents(value) == [f \in DOMAIN value |-> value[f].v]

\* A Register: RelaxedVal::Uninit when last_write is NoValue.  old_writes is
\* a set: ite_choice offers each of them, in no order that matters.
UninitRegister(relaxed) == [relaxed |-> relaxed, last_write |-> NoValue, last_read |-> NoValue, old_writes |-> {}]

InitRegister(relaxed, value) == [UninitRegister(relaxed) EXCEPT !.last_write = value]

IsInit(reg) == reg.last_write # NoValue

Unknowns == {Symbolic(value) : value \in [Fields -> [v : Bits, sym : {TRUE}]]}

\* The last write, or an older one, in new variables when there is a choice.
ite_choice(last_write, old_writes) ==
  IF old_writes = {} THEN {last_write} ELSE {Symbolic(w) : w \in {last_write} \cup old_writes}

\* The outcomes of a read: the value, and the register after it.
ReadRelaxed(reg) ==
  CASE ~ IsInit(reg) ->
         {[value |-> u, reg |-> [reg EXCEPT !.last_write = u, !.last_read = u]] : u \in Unknowns}
    [] IsInit(reg) /\ reg.last_read # NoValue -> {[value |-> reg.last_read, reg |-> reg]}
    [] IsInit(reg) /\ reg.last_read = NoValue ->
         {[value |-> w, reg |-> [reg EXCEPT !.last_read = w]] : w \in ite_choice(reg.last_write, reg.old_writes)}

ReadLast(reg) ==
  IF IsInit(reg) THEN {[value |-> reg.last_write, reg |-> reg]}
  ELSE {[value |-> u, reg |-> [reg EXCEPT !.last_write = u]] : u \in Unknowns}

Read(reg) == IF reg.relaxed THEN ReadRelaxed(reg) ELSE ReadLast(reg)

\* As WriteRelaxed, leaving the last value read.
WriteRelaxedStale(reg, value) ==
  [reg EXCEPT !.last_write = value,
              !.old_writes = IF IsInit(reg) THEN @ \cup {reg.last_write} ELSE {}]

WriteRelaxed(reg, value) ==
  [reg EXCEPT !.last_write = value, !.last_read = value,
              !.old_writes = IF IsInit(reg) THEN @ \cup {reg.last_write} ELSE {}]

Write(reg, value) ==
  IF reg.relaxed THEN WriteRelaxed(reg, value) ELSE [reg EXCEPT !.last_write = value]

\* As Synchronize, keeping the writes before the last.
SynchronizeReadOnly(reg) ==
  IF reg.relaxed /\ IsInit(reg) THEN [reg EXCEPT !.last_read = NoValue] ELSE reg

Synchronize(reg) ==
  IF reg.relaxed /\ IsInit(reg) THEN [reg EXCEPT !.last_read = NoValue, !.old_writes = {}] ELSE reg

ForgetLastRead(reg) == IF reg.relaxed /\ IsInit(reg) THEN [reg EXCEPT !.last_read = NoValue] ELSE reg
=============================================================================

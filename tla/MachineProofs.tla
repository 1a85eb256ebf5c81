---------------------------- MODULE MachineProofs ---------------------------
(***************************************************************************)
(* The registers of a path, for any registers, fields, values, vectors,    *)
(* resets and interrupts: the trace explains every read, a register holds  *)
(* what was written to it, and what a reset promises holds after it.       *)
(*                                                                         *)
(* Explained relates a register to what the trace says of it.  Every       *)
(* primitive on a register keeps it, together with the event it leaves;    *)
(* a state in the middle of an operation is Good when this holds of every  *)
(* register, and folds of primitives keep states Good.                     *)
(***************************************************************************)
EXTENDS Machine, FiniteSetTheorems, TLAPS

-----------------------------------------------------------------------------
(* Types.                                                                  *)

AllContents == [Fields -> Bits]

RegisterType ==
  [relaxed : BOOLEAN, last_write : Values \cup {NoValue}, last_read : Values \cup {NoValue}, old_writes : SUBSET Values]

Knowledge == [now : AllContents \cup {NoValue}, last : AllContents \cup {NoValue}, window : SUBSET AllContents]

(* Only a relaxed register that was written or read has more than one value. *)
RegisterOK(r, g) ==
  /\ g \in RegisterType /\ g.relaxed = (r \in Relaxed)
  /\ ~ (g.relaxed /\ IsInit(g)) => g.last_read = NoValue /\ g.old_writes = {}

(* A register of which the trace says nothing.                             *)
FitsUnseen(r, g) ==
  /\ g.old_writes = {} /\ g.last_read \in {NoValue, g.last_write}
  /\ IsInit(g) => r \in Silent

FitsSeen(g, k) ==
  /\ IsInit(g) /\ Contents(g.last_write) = k.last /\ k.last \in k.window
  /\ \A w \in g.old_writes : Contents(w) \in k.window
  /\ g.last_read = NoValue /\ k.now # NoValue => k.now = k.last /\ g.old_writes = {}
  /\ g.last_read # NoValue => Contents(g.last_read) \in k.window
  /\ g.last_read # NoValue /\ k.now # NoValue => k.now = Contents(g.last_read)

Explained(r, g, k) ==
  /\ RegisterOK(r, g) /\ k \in Knowledge
  /\ k.last = NoValue => k = Unseen /\ FitsUnseen(r, g)
  /\ k.last # NoValue => FitsSeen(g, k)

-----------------------------------------------------------------------------
(* Values and their contents.                                              *)

LEMMA NoValueIsNone == NoValue \notin Values /\ NoValue \notin AllContents
<1>1. \A X : NoValue \in [Fields -> X] => Fields = {}
  BY DEF NoValue
<1> QED BY <1>1, MachineAssumption DEF Values, AllContents

LEMMA ContentsType ==
  ASSUME NEW v \in Values
  PROVE  /\ Contents(v) \in AllContents
         /\ Symbolic(v) \in Values /\ Contents(Symbolic(v)) = Contents(v)
         /\ \A f \in Fields : Contents(v)[f] = v[f].v
BY DEF Values, FieldValues, Contents, AllContents, Symbolic

LEMMA UnknownsAreValues == Unknowns \subseteq Values
<1>1. \A v \in [Fields -> [v : Bits, sym : {TRUE}]] : v \in Values
  BY DEF Values, FieldValues
<1> QED BY <1>1, ContentsType DEF Unknowns

(* A value with another field has the contents with that field.            *)
WithField(c, f, b) == [c EXCEPT ![f] = b]

LEMMA ContentsExcept ==
  ASSUME NEW v \in Values, NEW f \in Fields, NEW x \in FieldValues, NEW w, w = WithField(v, f, x)
  PROVE  /\ w \in Values /\ w[f] = x /\ v[f].v \in Bits
         /\ Contents(v) = WithField(Contents(w), f, v[f].v)
         /\ \A h \in Fields \ {f} : w[h] = v[h] /\ w[h].v = Contents(v)[h]
<1> DEFINE c == Contents(v)
           d == Contents(w)
<1>1. w \in Values /\ v[f].v \in Bits /\ w[f] = x /\ \A h \in Fields \ {f} : w[h] = v[h]
  BY DEF Values, FieldValues, WithField
<1>2. c \in AllContents /\ d \in AllContents /\ \A h \in Fields : c[h] = v[h].v /\ d[h] = w[h].v
  BY <1>1, ContentsType
<1> HIDE DEF c, d
<1>3. c = WithField(d, f, v[f].v)
  BY <1>1, <1>2 DEF AllContents, WithField
<1>4. \A h \in Fields \ {f} : w[h].v = c[h]
  BY <1>1, <1>2
<1> QED BY <1>1, <1>3, <1>4 DEF c, d

-----------------------------------------------------------------------------
(* One register.                                                           *)

(* What a read returns: the register's value on this path, kept for later  *)
(* reads of a relaxed register.                                            *)
LEMMA ReadOutcome ==
  ASSUME NEW r, NEW g, RegisterOK(r, g), NEW o \in Read(g)
  PROVE  /\ o.value \in Values /\ RegisterOK(r, o.reg) /\ IsInit(o.reg)
         /\ o.reg.old_writes = g.old_writes
         /\ o.reg.last_read = (IF g.relaxed THEN o.value ELSE NoValue)
         /\ ~ IsInit(g) => o.reg.last_write = o.value
         /\ IsInit(g) => o.reg.last_write = g.last_write
         /\ IsInit(g) /\ g.last_read # NoValue => o.value = g.last_read
         /\ IsInit(g) /\ g.last_read = NoValue =>
              \E w \in {g.last_write} \cup g.old_writes :
                Contents(o.value) = Contents(w) /\ (g.old_writes = {} => o.value = w)
<1>1. g \in RegisterType /\ g.relaxed = (r \in Relaxed) /\ NoValue \notin Values
  BY NoValueIsNone DEF RegisterOK
<1>2. CASE ~ IsInit(g)
  <2>1. PICK u \in Unknowns :
          o = [value |-> u, reg |-> IF g.relaxed THEN [g EXCEPT !.last_write = u, !.last_read = u]
                                    ELSE [g EXCEPT !.last_write = u]]
    BY <1>2 DEF Read, ReadRelaxed, ReadLast
  <2>2. u \in Values /\ g.last_read = NoValue /\ g.old_writes = {}
    BY <1>2, UnknownsAreValues DEF RegisterOK
  <2> QED BY <1>1, <1>2, <2>1, <2>2 DEF RegisterOK, RegisterType, IsInit
<1>3. CASE IsInit(g) /\ ~ g.relaxed
  <2>1. o = [value |-> g.last_write, reg |-> g] /\ g.last_read = NoValue /\ g.old_writes = {}
    BY <1>3 DEF Read, ReadLast, RegisterOK
  <2> QED BY <1>1, <1>3, <2>1 DEF RegisterOK, RegisterType, IsInit
<1>4. CASE IsInit(g) /\ g.relaxed /\ g.last_read # NoValue
  <2>1. o = [value |-> g.last_read, reg |-> g]
    BY <1>4 DEF Read, ReadRelaxed
  <2> QED BY <1>1, <1>4, <2>1 DEF RegisterOK, RegisterType, IsInit
<1>5. CASE IsInit(g) /\ g.relaxed /\ g.last_read = NoValue
  <2>1. PICK w \in ite_choice(g.last_write, g.old_writes) :
          o = [value |-> w, reg |-> [g EXCEPT !.last_read = w]]
    BY <1>5 DEF Read, ReadRelaxed
  <2>2. PICK x \in {g.last_write} \cup g.old_writes :
          w = IF g.old_writes = {} THEN x ELSE Symbolic(x)
    BY <2>1 DEF ite_choice
  <2>3. x \in Values
    BY <1>1, <1>5, <2>2 DEF RegisterType, IsInit
  <2>4. w \in Values /\ Contents(w) = Contents(x)
    BY <2>2, <2>3, ContentsType
  <2> QED BY <1>1, <1>5, <2>1, <2>2, <2>4 DEF RegisterOK, RegisterType, IsInit
<1> QED BY <1>1, <1>2, <1>3, <1>4, <1>5 DEF RegisterType

(* A read agrees with the trace, and its event says what it left; without  *)
(* an event there may be more than the trace says, but nothing else.       *)
LEMMA ReadExplained ==
  ASSUME NEW r, NEW g, NEW k, Explained(r, g, k), NEW o \in Read(g)
  PROVE  /\ ReadOf(k, Contents(o.value))
         /\ Explained(r, o.reg, SeenRead(k, Contents(o.value)))
         /\ r \in Silent => Explained(r, o.reg, k)
         /\ k.last # NoValue => Explained(r, o.reg, k)
<1> DEFINE c == Contents(o.value)
<1>1. RegisterOK(r, g) /\ k \in Knowledge /\ g \in RegisterType
  BY DEF Explained, RegisterOK
<1>2. /\ o.value \in Values /\ RegisterOK(r, o.reg) /\ IsInit(o.reg)
      /\ o.reg.old_writes = g.old_writes
      /\ o.reg.last_read = (IF g.relaxed THEN o.value ELSE NoValue)
      /\ ~ IsInit(g) => o.reg.last_write = o.value
      /\ IsInit(g) => o.reg.last_write = g.last_write
      /\ IsInit(g) /\ g.last_read # NoValue => o.value = g.last_read
      /\ IsInit(g) /\ g.last_read = NoValue =>
           \E w \in {g.last_write} \cup g.old_writes : Contents(o.value) = Contents(w) /\ (g.old_writes = {} => o.value = w)
  BY <1>1, ReadOutcome
<1>3. c \in AllContents /\ NoValue \notin AllContents /\ NoValue \notin Values
  BY <1>2, ContentsType, NoValueIsNone
<1>4. c # NoValue /\ o.value # NoValue
  BY <1>2, <1>3
<1>5. SeenRead(k, c) \in Knowledge
  BY <1>1, <1>3 DEF SeenRead, Knowledge
<1>6. CASE k.last = NoValue
  <2>1. k = Unseen /\ FitsUnseen(r, g)
    BY <1>6 DEF Explained
  <2>2. o.value = o.reg.last_write
    BY <1>1, <1>2, <2>1 DEF FitsUnseen, RegisterOK
  <2>3. SeenRead(k, c) = [now |-> c, last |-> c, window |-> {c}]
    BY <1>6 DEF SeenRead
  <2>4. Explained(r, o.reg, SeenRead(k, c))
    BY <1>2, <1>3, <1>4, <1>5, <2>1, <2>2, <2>3 DEF Explained, FitsSeen, FitsUnseen
  <2>5. ReadOf(k, c)
    BY <2>1 DEF ReadOf, Unseen
  <2>6. r \in Silent => Explained(r, o.reg, k)
    BY <1>1, <1>2, <1>6, <2>1, <2>2 DEF Explained, FitsUnseen
  <2> QED BY <1>6, <2>4, <2>5, <2>6
<1>7. CASE k.last # NoValue
  <2>1. FitsSeen(g, k)
    BY <1>7 DEF Explained
  <2>2. c \in k.window /\ (k.now # NoValue => c = k.now) /\ (~ g.relaxed => c = k.last)
    BY <1>1, <1>2, <1>7, <2>1 DEF FitsSeen, RegisterOK
  <2>3. SeenRead(k, c) = [now |-> c, last |-> k.last, window |-> k.window]
    BY <1>7 DEF SeenRead
  <2>4. IsInit(g) /\ o.reg.last_write = g.last_write /\ (~ g.relaxed => g.old_writes = {})
    BY <1>1, <1>2, <2>1 DEF FitsSeen, RegisterOK
  <2>5. Explained(r, o.reg, SeenRead(k, c))
    BY <1>2, <1>4, <1>5, <1>7, <2>1, <2>2, <2>3, <2>4 DEF Explained, FitsSeen
  <2>6. Explained(r, o.reg, k)
    BY <1>1, <1>2, <1>4, <1>7, <2>1, <2>2, <2>4 DEF Explained, FitsSeen
  <2> QED BY <1>7, <2>2, <2>5, <2>6 DEF ReadOf
<1> QED BY <1>6, <1>7

(* The register after a write.                                             *)
LEMMA WriteOutcome ==
  ASSUME NEW r, NEW g, RegisterOK(r, g), NEW value \in Values
  PROVE  /\ RegisterOK(r, Write(g, value)) /\ IsInit(Write(g, value))
         /\ Write(g, value).last_write = value
         /\ Write(g, value).last_read = (IF g.relaxed THEN value ELSE NoValue)
         /\ Write(g, value).old_writes = (IF g.relaxed /\ IsInit(g) THEN g.old_writes \cup {g.last_write} ELSE {})
<1>1. g \in RegisterType /\ g.relaxed = (r \in Relaxed) /\ NoValue \notin Values
  BY NoValueIsNone DEF RegisterOK
<1>2. CASE g.relaxed /\ IsInit(g)
  <2>1. Write(g, value) = [g EXCEPT !.last_write = value, !.last_read = value,
                                    !.old_writes = g.old_writes \cup {g.last_write}]
    BY <1>1, <1>2 DEF Write, WriteRelaxed, RegisterType
  <2> QED BY <1>1, <1>2, <2>1 DEF RegisterOK, RegisterType, IsInit
<1>3. CASE g.relaxed /\ ~ IsInit(g)
  <2>1. Write(g, value) = [g EXCEPT !.last_write = value, !.last_read = value, !.old_writes = {}]
    BY <1>1, <1>3 DEF Write, WriteRelaxed, RegisterType
  <2> QED BY <1>1, <1>3, <2>1 DEF RegisterOK, RegisterType, IsInit
<1>4. CASE ~ g.relaxed
  <2>1. Write(g, value) = [g EXCEPT !.last_write = value] /\ g.last_read = NoValue /\ g.old_writes = {}
    BY <1>4 DEF Write, RegisterOK
  <2> QED BY <1>1, <1>4, <2>1 DEF RegisterOK, RegisterType, IsInit
<1> QED BY <1>1, <1>2, <1>3, <1>4 DEF RegisterType

(* A write is the last, and what was there before it may still be read if  *)
(* the register is relaxed.                                                *)
LEMMA WriteFits ==
  ASSUME NEW r, NEW g, RegisterOK(r, g), NEW k, k \in Knowledge, NEW value \in Values,
         g.relaxed /\ IsInit(g) => \A w \in {g.last_write} \cup g.old_writes : Contents(w) \in k.window
  PROVE  Explained(r, Write(g, value), SeenWrite(k, Contents(value)))
<1> DEFINE c == Contents(value)
<1>1. c \in AllContents /\ c # NoValue /\ value # NoValue
  BY ContentsType, NoValueIsNone
<1>2. /\ RegisterOK(r, Write(g, value)) /\ IsInit(Write(g, value))
      /\ Write(g, value).last_write = value
      /\ Write(g, value).last_read = (IF g.relaxed THEN value ELSE NoValue)
      /\ Write(g, value).old_writes = (IF g.relaxed /\ IsInit(g) THEN g.old_writes \cup {g.last_write} ELSE {})
  BY WriteOutcome
<1>3. SeenWrite(k, c) = [now |-> c, last |-> c, window |-> k.window \cup {c}] /\ SeenWrite(k, c) \in Knowledge
  BY <1>1 DEF SeenWrite, Knowledge
<1> HIDE DEF c
<1>4. /\ SeenWrite(k, c).now = c /\ SeenWrite(k, c).last = c
      /\ \A x : x \in SeenWrite(k, c).window <=> x \in k.window \/ x = c
  BY <1>3
<1>5. FitsSeen(Write(g, value), SeenWrite(k, c))
  BY <1>1, <1>2, <1>4 DEF FitsSeen, c, RegisterOK
<1>6. Explained(r, Write(g, value), SeenWrite(k, c))
  BY <1>1, <1>2, <1>3, <1>4, <1>5 DEF Explained
<1> QED BY <1>6 DEF c

LEMMA SeenMayBeRead ==
  ASSUME NEW r, NEW g, NEW k, Explained(r, g, k), k.last # NoValue
  PROVE  \A w \in {g.last_write} \cup g.old_writes : Contents(w) \in k.window
BY DEF Explained, FitsSeen

LEMMA WriteSeenExplained ==
  ASSUME NEW r, NEW g, NEW k, Explained(r, g, k), k.last # NoValue, NEW value \in Values
  PROVE  Explained(r, Write(g, value), SeenWrite(k, Contents(value)))
BY SeenMayBeRead, WriteFits DEF Explained

(* A write of the whole register.                                          *)
LEMMA WriteExplained ==
  ASSUME NEW r, NEW g, NEW k, Explained(r, g, k), NEW value \in Values,
         NEW e, e.reg = r, e.acc = <<>>, e.val = value
  PROVE  Explained(r, Write(g, value), SeenWrite(Before(k, e), Contents(value)))
<1>1. CASE k.last # NoValue
  BY <1>1, WriteSeenExplained DEF Before
<1>2. CASE k.last = NoValue
  <2>1. k = Unseen /\ FitsUnseen(r, g) /\ RegisterOK(r, g) /\ g \in RegisterType
    BY <1>2 DEF Explained, RegisterOK
  <2>2. Before(k, e) = [k EXCEPT !.window = IF r \in Silent THEN AllContents ELSE {}]
    BY <1>2 DEF Before, AllContents
  <2>3. Before(k, e) \in Knowledge /\ Before(k, e).window = IF r \in Silent THEN AllContents ELSE {}
    BY <2>1, <2>2 DEF Knowledge, Unseen
  <2>4. IsInit(g) => r \in Silent /\ g.old_writes = {} /\ g.last_write \in Values
    BY <2>1 DEF FitsUnseen, IsInit, RegisterType
  <2>5. IsInit(g) => \A w \in {g.last_write} \cup g.old_writes : Contents(w) \in Before(k, e).window
    BY <2>3, <2>4, ContentsType
  <2> QED BY <2>1, <2>3, <2>5, WriteFits
<1> QED BY <1>1, <1>2

(* A write of a field, after the read that gives the other fields.         *)
LEMMA FieldWriteExplained ==
  ASSUME NEW r, NEW g, NEW k, Explained(r, g, k), NEW o \in Read(g), NEW f \in Fields, NEW x \in FieldValues,
         NEW whole, whole = WithField(o.value, f, x), NEW e, e.reg = r, e.acc # <<>>, e.acc[1] = f, e.val = whole
  PROVE  /\ whole \in Values
         /\ Explained(r, Write(o.reg, whole), SeenWrite(Before(k, e), Contents(whole)))
         /\ k.now # NoValue => \A h \in Fields \ {f} : whole[h].v = k.now[h]
<1>1. RegisterOK(r, g)
  BY DEF Explained
<1>2. o.value \in Values /\ RegisterOK(r, o.reg) /\ o.reg \in RegisterType /\ IsInit(o.reg)
  BY <1>1, ReadOutcome DEF RegisterOK
<1>3. /\ whole \in Values /\ \A h \in Fields \ {f} : whole[h].v = Contents(o.value)[h]
      /\ Contents(o.value) = WithField(Contents(whole), f, o.value[f].v) /\ o.value[f].v \in Bits
  BY <1>2, ContentsExcept
<1>4. k.now # NoValue => \A h \in Fields \ {f} : whole[h].v = k.now[h]
  <2>1. ReadOf(k, Contents(o.value))
    BY ReadExplained
  <2>2. k.now # NoValue => k.now = Contents(o.value)
    BY <2>1 DEF ReadOf
  <2> QED BY <1>3, <2>2
<1>5. CASE k.last # NoValue
  <2>1. Explained(r, o.reg, k)
    BY <1>5, ReadExplained
  <2> QED BY <1>3, <1>4, <1>5, <2>1, WriteSeenExplained DEF Before
<1>6. CASE k.last = NoValue
  <2> DEFINE W == {WithField(Contents(whole), f, b) : b \in Bits}
  <2>1. k = Unseen /\ FitsUnseen(r, g)
    BY <1>6 DEF Explained
  <2>2. Before(k, e) = [k EXCEPT !.window = W]
    BY <1>6 DEF Before, WithField
  <2>3. W \subseteq AllContents
    BY <1>3, ContentsType DEF AllContents, WithField
  <2>4. Contents(o.value) \in W
    BY <1>3
  <2> HIDE DEF W
  <2>5. Before(k, e) \in Knowledge /\ Before(k, e).window = W
    BY <2>1, <2>2, <2>3 DEF Knowledge, Unseen
  <2>6. o.reg.last_write = o.value /\ o.reg.old_writes = {}
    BY <1>1, <2>1, ReadOutcome DEF FitsUnseen
  <2>7. \A w \in {o.reg.last_write} \cup o.reg.old_writes : Contents(w) \in Before(k, e).window
    BY <2>4, <2>5, <2>6
  <2> QED BY <1>2, <1>3, <1>4, <2>5, <2>7, WriteFits
<1> QED BY <1>5, <1>6

(* Synchronization, announced to the reader or not.                        *)
LEMMA SynchronizeExplained ==
  ASSUME NEW r, NEW g, NEW k, Explained(r, g, k)
  PROVE  /\ Explained(r, Synchronize(g), SeenSync(k))
         /\ k.last # NoValue /\ k.now = k.last => Explained(r, Synchronize(g), k)
<1> DEFINE h == Synchronize(g)
<1>1. /\ g \in RegisterType /\ RegisterOK(r, g) /\ k \in Knowledge
      /\ k.last = NoValue => k = Unseen /\ FitsUnseen(r, g)
      /\ k.last # NoValue => FitsSeen(g, k)
  BY DEF Explained, RegisterOK
<1>2. /\ h \in RegisterType /\ h.relaxed = g.relaxed /\ h.last_write = g.last_write
      /\ h.last_read = NoValue /\ h.old_writes = {}
  BY <1>1 DEF Synchronize, RegisterType, RegisterOK
<1> HIDE DEF h
<1>3. RegisterOK(r, h) /\ (IsInit(h) <=> IsInit(g))
  BY <1>1, <1>2 DEF RegisterOK, IsInit
<1>4. CASE k.last = NoValue
  <2>1. k = Unseen /\ k.now = NoValue /\ k.window = {}
    BY <1>1, <1>4 DEF Unseen
  <2>2. /\ SeenSync(k) \in Knowledge /\ SeenSync(k).now = k.now /\ SeenSync(k).last = k.last
        /\ SeenSync(k).window = k.window
    BY <1>1, <1>4, <2>1 DEF SeenSync, Knowledge
  <2>3. SeenSync(k) = k
    BY <1>1, <2>2 DEF Knowledge
  <2>4. FitsUnseen(r, h)
    BY <1>1, <1>2, <1>3, <1>4 DEF FitsUnseen
  <2> QED BY <1>1, <1>3, <1>4, <2>1, <2>3, <2>4 DEF Explained, h
<1>5. CASE k.last # NoValue
  <2>1. /\ SeenSync(k) \in Knowledge /\ SeenSync(k).now = k.last /\ SeenSync(k).last = k.last
        /\ SeenSync(k).window = {k.last}
    BY <1>1, <1>5 DEF SeenSync, Knowledge
  <2>2. FitsSeen(h, SeenSync(k))
    BY <1>1, <1>2, <1>3, <1>5, <2>1 DEF FitsSeen
  <2>3. k.now = k.last => FitsSeen(h, k)
    BY <1>1, <1>2, <1>3, <1>5 DEF FitsSeen
  <2> QED BY <1>1, <1>3, <1>5, <2>1, <2>2, <2>3 DEF Explained, h
<1> QED BY <1>4, <1>5

LEMMA ForgetExplained ==
  ASSUME NEW r, NEW g, NEW k, Explained(r, g, k)
  PROVE  Explained(r, ForgetLastRead(g), IF r \in Relaxed THEN SeenForget(k) ELSE k)
<1> DEFINE h == ForgetLastRead(g)
<1>1. /\ g \in RegisterType /\ RegisterOK(r, g) /\ k \in Knowledge
      /\ k.last = NoValue => k = Unseen /\ FitsUnseen(r, g)
      /\ k.last # NoValue => FitsSeen(g, k)
  BY DEF Explained, RegisterOK
<1>2. CASE ~ (g.relaxed /\ IsInit(g))
  <2>1. h = g
    BY <1>2 DEF ForgetLastRead
  <2>2. r \in Relaxed => ~ IsInit(g) /\ k = Unseen
    BY <1>1, <1>2 DEF RegisterOK, FitsSeen
  <2>3. SeenForget(Unseen) = Unseen
    BY DEF SeenForget, Unseen
  <2> QED BY <2>1, <2>2, <2>3
<1>3. CASE g.relaxed /\ IsInit(g)
  <2>1. r \in Relaxed
    BY <1>1, <1>3 DEF RegisterOK
  <2>2. /\ h \in RegisterType /\ h.relaxed = g.relaxed /\ h.last_write = g.last_write
        /\ h.last_read = NoValue /\ h.old_writes = g.old_writes
    BY <1>1, <1>3 DEF ForgetLastRead, RegisterType
  <2>3. /\ SeenForget(k) \in Knowledge /\ SeenForget(k).now = NoValue /\ SeenForget(k).last = k.last
        /\ SeenForget(k).window = k.window
    BY <1>1 DEF SeenForget, Knowledge
  <2> HIDE DEF h
  <2>4. RegisterOK(r, h) /\ IsInit(h)
    BY <1>1, <1>3, <2>2 DEF RegisterOK, IsInit
  <2>5. k.last = NoValue => SeenForget(k) = Unseen /\ FitsUnseen(r, h)
    BY <1>1, <1>3, <2>2, <2>4 DEF FitsUnseen, SeenForget, Unseen
  <2>6. k.last # NoValue => FitsSeen(h, SeenForget(k))
    BY <1>1, <2>2, <2>3, <2>4 DEF FitsSeen
  <2>7. Explained(r, h, SeenForget(k))
    BY <2>3, <2>4, <2>5, <2>6 DEF Explained
  <2> QED BY <2>1, <2>7 DEF h
<1> QED BY <1>2, <1>3

-----------------------------------------------------------------------------
(* States in the middle of an operation, with the events since its start,  *)
(* when k0 was known.                                                      *)

Accessors == {<<>>} \cup {<<f>> : f \in Fields}

RegEvents ==
  [ev : {"ReadReg", "WriteReg", "AssumeReg"}, reg : Regs, acc : Accessors, val : Values \cup FieldValues]

States == [regs : [Regs -> RegisterType], evs : Seq(RegEvents)]

ReplayFrom(k0, evs) == Trace!fold([known |-> k0, ok |-> TRUE], evs)

Replayed == [known : [Regs -> Knowledge], ok : BOOLEAN]

KnownOf(k0, s, r) == ReplayFrom(k0, s.evs).known[r]

Good(k0, s) ==
  /\ s \in States
  /\ ReplayFrom(k0, s.evs) \in Replayed /\ ReplayFrom(k0, s.evs).ok
  /\ \A r \in Regs : Explained(r, s.regs[r], KnownOf(k0, s, r))

(* An event of a register says nothing of the others.                      *)
LEMMA OtherRegister ==
  ASSUME NEW k, NEW e \in RegEvents, NEW r, e.reg # r
  PROVE  Seen(k, e, r) = k /\ Agrees(k, e, r)
<1>1. e.ev \in {"ReadReg", "WriteReg", "AssumeReg"}
  BY DEF RegEvents
<1> QED BY <1>1 DEF Seen, Agrees

Then(s, q, g, e) == [regs |-> [s.regs EXCEPT ![q] = g], evs |-> Append(s.evs, e)]

LEMMA GoodEvent ==
  ASSUME NEW k0, NEW s, Good(k0, s), NEW e \in RegEvents, NEW q, q = e.reg, NEW g,
         Explained(q, g, Seen(KnownOf(k0, s, q), e, q)), Agrees(KnownOf(k0, s, q), e, q)
  PROVE  /\ Good(k0, Then(s, q, g, e))
         /\ KnownOf(k0, Then(s, q, g, e), q) = Seen(KnownOf(k0, s, q), e, q)
<1> DEFINE t == Then(s, q, g, e)
           R == ReplayFrom(k0, s.evs)
           S == ReplayFrom(k0, t.evs)
<1>1. s \in States /\ R \in Replayed /\ R.ok /\ \A r \in Regs : Explained(r, s.regs[r], R.known[r])
  BY DEF Good, KnownOf
<1>2. q \in Regs /\ g \in RegisterType /\ Seen(R.known[q], e, q) \in Knowledge
  BY DEF RegEvents, Explained, RegisterOK, KnownOf
<1>3. /\ t \in States /\ t.regs[q] = g /\ t.evs = Append(s.evs, e)
      /\ \A r \in Regs \ {q} : t.regs[r] = s.regs[r]
  BY <1>1, <1>2 DEF Then, States
<1>4. S = replay(R, e)
  <2>1. s.evs \in Seq(RegEvents)
    BY <1>1 DEF States
  <2> QED BY <1>3, <2>1, Trace!FoldAppend DEF ReplayFrom
<1> HIDE DEF t, S, R
<1>5. \A r \in Regs \ {q} : Seen(R.known[r], e, r) = R.known[r] /\ Agrees(R.known[r], e, r)
  BY OtherRegister
<1>6. \A r \in Regs : Agrees(R.known[r], e, r)
  BY <1>5 DEF KnownOf, R
<1>7. S.known = [r \in Regs |-> Seen(R.known[r], e, r)] /\ S.ok = (R.ok /\ \A r \in Regs : Agrees(R.known[r], e, r))
      /\ S = [known |-> S.known, ok |-> S.ok]
  BY <1>4 DEF replay
<1>8. \A r \in Regs : S.known[r] = Seen(R.known[r], e, r)
  BY <1>7
<1>9. \A r \in Regs : S.known[r] \in Knowledge /\ Explained(r, t.regs[r], S.known[r])
  BY <1>1, <1>2, <1>3, <1>5, <1>8 DEF Replayed, KnownOf, R
<1>10. S.known \in [Regs -> Knowledge]
  BY <1>7, <1>9
<1>11. S.ok = TRUE
  BY <1>1, <1>6, <1>7
<1>12. S \in Replayed
  BY <1>7, <1>10, <1>11 DEF Replayed
<1> QED BY <1>2, <1>3, <1>8, <1>9, <1>11, <1>12 DEF Good, KnownOf, S, R, t

(* A change of a register that the trace does not tell of.                 *)
LEMMA GoodSilent ==
  ASSUME NEW k0, NEW s, Good(k0, s), NEW q \in Regs, NEW g, Explained(q, g, KnownOf(k0, s, q))
  PROVE  /\ Good(k0, [s EXCEPT !.regs[q] = g])
         /\ \A r \in Regs : KnownOf(k0, [s EXCEPT !.regs[q] = g], r) = KnownOf(k0, s, r)
<1> DEFINE t == [s EXCEPT !.regs[q] = g]
<1>1. s \in States /\ g \in RegisterType
  BY DEF Good, Explained, RegisterOK
<1>2. /\ t \in States /\ t.regs[q] = g /\ t.evs = s.evs
      /\ \A r \in Regs \ {q} : t.regs[r] = s.regs[r]
  BY <1>1 DEF States
<1> HIDE DEF t
<1>3. \A r \in Regs : KnownOf(k0, t, r) = KnownOf(k0, s, r)
  BY <1>2 DEF KnownOf
<1>4. Good(k0, t)
  BY <1>2, <1>3 DEF Good
<1> QED BY <1>3, <1>4 DEF t

(* A location and an event of it.                                          *)
LEMMA EventType ==
  ASSUME NEW kind \in {"ReadReg", "WriteReg", "AssumeReg"}, NEW loc \in Locations, NEW val \in Values \cup FieldValues
  PROVE  /\ Ev(kind, loc, val) \in RegEvents /\ Ev(kind, loc, val).ev = kind /\ Ev(kind, loc, val).reg = loc.reg
         /\ Ev(kind, loc, val).acc = loc.acc /\ Ev(kind, loc, val).val = val /\ loc.reg \in Regs
         /\ loc.acc = <<>> \/ \E f \in Fields : loc.acc = <<f>> /\ loc.acc # <<>> /\ loc.acc[1] = f
<1>1. loc.acc \in Accessors /\ loc.reg \in Regs
  BY DEF Locations, Accessors
<1>2. loc.acc = <<>> \/ \E f \in Fields : loc.acc = <<f>> /\ loc.acc # <<>> /\ loc.acc[1] = f
  BY <1>1 DEF Accessors
<1> QED BY <1>1, <1>2 DEF Ev, RegEvents

(* A read with its event.                                                  *)
GotFrom(s, loc, t, o) ==
  /\ o.value \in Values /\ t.evs = Append(s.evs, Ev("ReadReg", loc, o.value))
  /\ t.regs[loc.reg] = o.reg /\ \A r \in Regs \ {loc.reg} : t.regs[r] = s.regs[r]

LEMMA GoodGet ==
  ASSUME NEW k0, NEW s, Good(k0, s), NEW loc \in Locations, NEW x \in Get(s, loc, FALSE)
  PROVE  /\ Good(k0, x.s) /\ x.value \in Values \cup FieldValues
         /\ \E o \in Read(s.regs[loc.reg]) : GotFrom(s, loc, x.s, o)
<1> DEFINE q == loc.reg
           k == KnownOf(k0, s, q)
<1>1. PICK o \in Read(s.regs[q]) :
        x = Result([s EXCEPT !.regs[q] = o.reg, !.evs = Append(@, Ev("ReadReg", loc, o.value))], GetAt(o.value, loc))
  BY DEF Get
<1> DEFINE e == Ev("ReadReg", loc, o.value)
<1>2. s \in States /\ q \in Regs /\ Explained(q, s.regs[q], k)
  BY DEF Good, Locations
<1>3. o.value \in Values
  BY <1>2, ReadOutcome DEF Explained
<1>4. e \in RegEvents /\ e.ev = "ReadReg" /\ e.reg = q /\ e.val = o.value
  BY <1>3, EventType
<1>5. x.s = Then(s, q, o.reg, e) /\ x.value = GetAt(o.value, loc)
  BY <1>1, <1>2 DEF Result, Then, States
<1> HIDE DEF e, k
<1>6. Seen(k, e, q) = SeenRead(k, Contents(o.value)) /\ (Agrees(k, e, q) <=> ReadOf(k, Contents(o.value)))
  BY <1>4 DEF Seen, Agrees
<1>7. Explained(q, o.reg, Seen(k, e, q)) /\ Agrees(k, e, q)
  BY <1>2, <1>6, ReadExplained
<1>8. Good(k0, x.s)
  BY <1>4, <1>5, <1>7, GoodEvent DEF k
<1>9. x.value \in Values \cup FieldValues
  BY <1>3, <1>5, EventType DEF GetAt, Values
<1>10. x.s.evs = Append(s.evs, e) /\ x.s.regs[q] = o.reg /\ \A r \in Regs \ {q} : x.s.regs[r] = s.regs[r]
  BY <1>2, <1>5 DEF Then, States
<1>11. GotFrom(s, loc, x.s, o)
  BY <1>3, <1>10 DEF GotFrom, e
<1> QED BY <1>8, <1>9, <1>11

(* A write, of the register or of a field, with its event.                 *)
Assigned(s, loc, value, a, h, whole) ==
  /\ whole \in Values /\ RegisterOK(loc.reg, h) /\ a = Then(s, loc.reg, Write(h, whole), Ev("WriteReg", loc, whole))
  /\ loc.acc = <<>> => whole = value
  /\ loc.acc # <<>> => \E o \in Read(s.regs[loc.reg]) : whole = WithField(o.value, loc.acc[1], value)

LEMMA AssignOutcome ==
  ASSUME NEW k0, NEW s, Good(k0, s), NEW loc \in Locations, NEW value \in ValuesAt(loc), NEW a \in Assign(s, loc, value)
  PROVE  \E h, whole : /\ Assigned(s, loc, value, a, h, whole)
                       /\ Explained(loc.reg, Write(h, whole),
                                    Seen(KnownOf(k0, s, loc.reg), Ev("WriteReg", loc, whole), loc.reg))
                       /\ Agrees(KnownOf(k0, s, loc.reg), Ev("WriteReg", loc, whole), loc.reg)
<1> DEFINE q == loc.reg
           k == KnownOf(k0, s, q)
<1>1. s \in States /\ q \in Regs /\ Explained(q, s.regs[q], k) /\ RegisterOK(q, s.regs[q])
  BY DEF Good, Locations, Explained
<1>2. CASE loc.acc = <<>>
  <2> DEFINE e == Ev("WriteReg", loc, value)
  <2>1. value \in Values
    BY <1>2 DEF ValuesAt
  <2>2. e \in RegEvents /\ e.ev = "WriteReg" /\ e.reg = q /\ e.acc = <<>> /\ e.val = value
    BY <1>2, <2>1, EventType
  <2>3. a = Then(s, q, Write(s.regs[q], value), e)
    BY <1>1, <1>2 DEF Assign, Put, Then, States
  <2> HIDE DEF e, k
  <2>4. Seen(k, e, q) = SeenWrite(Before(k, e), Contents(value)) /\ Agrees(k, e, q)
    BY <2>2 DEF Seen, Agrees
  <2>5. Explained(q, Write(s.regs[q], value), Seen(k, e, q))
    BY <1>1, <2>1, <2>2, <2>4, WriteExplained
  <2>6. Assigned(s, loc, value, a, s.regs[q], value)
    BY <1>1, <1>2, <2>1, <2>3 DEF Assigned, e
  <2> QED BY <2>4, <2>5, <2>6 DEF e, k
<1>3. CASE loc.acc # <<>>
  <2>1. PICK f \in Fields : loc.acc = <<f>> /\ loc.acc[1] = f
    BY <1>3 DEF Locations
  <2>2. value \in FieldValues
    BY <1>3 DEF ValuesAt
  <2>3. PICK x \in Get(s, Whole(q), TRUE) : a = Put(x.s, loc, SetAt(x.value, loc, value))
    BY <1>3 DEF Assign
  <2>4. PICK o \in Read(s.regs[q]) : x = Result([s EXCEPT !.regs[q] = o.reg, !.evs = @], o.value)
    BY <2>3 DEF Get, Whole, GetAt
  <2> DEFINE whole == WithField(o.value, f, value)
             e == Ev("WriteReg", loc, whole)
  <2>5. o.value \in Values /\ RegisterOK(q, o.reg) /\ o.reg \in RegisterType
    BY <1>1, ReadOutcome DEF RegisterOK
  <2>6. whole \in Values
    BY <2>2, <2>5, ContentsExcept
  <2>7. e \in RegEvents /\ e.ev = "WriteReg" /\ e.reg = q /\ e.acc # <<>> /\ e.acc[1] = f /\ e.val = whole
    BY <1>3, <2>1, <2>6, EventType
  <2>8. a = Put(x.s, loc, whole)
    BY <1>3, <2>1, <2>3, <2>4 DEF SetAt, Result, WithField
  <2>9. x.s = [s EXCEPT !.regs[q] = o.reg]
    BY <1>1, <2>4 DEF Result, States
  <2> HIDE DEF whole
  <2>10. a = Then(s, q, Write(o.reg, whole), e)
    BY <1>1, <2>5, <2>8, <2>9 DEF Put, Then, States
  <2> HIDE DEF e, k
  <2>11. /\ Explained(q, Write(o.reg, whole), SeenWrite(Before(k, e), Contents(whole)))
         /\ k.now # NoValue => \A h \in Fields \ {f} : whole[h].v = k.now[h]
    BY <1>1, <2>2, <2>7, FieldWriteExplained DEF whole
  <2>12. Seen(k, e, q) = SeenWrite(Before(k, e), Contents(whole))
    BY <2>7 DEF Seen
  <2>13. Agrees(k, e, q) <=> (k.now # NoValue => \A h \in Fields \ {e.acc[1]} : e.val[h].v = k.now[h])
    BY <2>1, <1>3, <2>7 DEF Agrees
  <2>14. Agrees(k, e, q)
    BY <2>1, <2>7, <2>11, <2>13
  <2>15. Assigned(s, loc, value, a, o.reg, whole)
    BY <1>3, <2>1, <2>5, <2>6, <2>10 DEF Assigned, whole, e
  <2> QED BY <2>11, <2>12, <2>14, <2>15 DEF e, k
<1> QED BY <1>2, <1>3

-----------------------------------------------------------------------------
(* Resets.  A reset is settled when every read gives its value, now and    *)
(* after a synchronization.                                                *)

HoldsIn(v, reset) ==
  IF reset.loc.acc = <<>> THEN Contents(v) = Contents(reset.value) ELSE v[reset.loc.acc[1]].v = reset.value.v

Settled(g, reset) ==
  /\ IsInit(g) /\ HoldsIn(g.last_write, reset)
  /\ g.last_read # NoValue => HoldsIn(g.last_read, reset)
  /\ g.last_read = NoValue => g.old_writes = {}

SettledIn(s, reset) == Settled(s.regs[reset.loc.reg], reset)

LEMMA SettledRead ==
  ASSUME NEW r, NEW g, RegisterOK(r, g), NEW reset, Settled(g, reset), NEW o \in Read(g)
  PROVE  Settled(o.reg, reset) /\ HoldsIn(o.value, reset)
<1>1. /\ o.value \in Values /\ RegisterOK(r, o.reg) /\ IsInit(o.reg)
      /\ o.reg.last_read = (IF g.relaxed THEN o.value ELSE NoValue)
      /\ IsInit(g) => o.reg.last_write = g.last_write
      /\ IsInit(g) /\ g.last_read # NoValue => o.value = g.last_read
      /\ o.reg.old_writes = g.old_writes /\ (IsInit(g) /\ g.last_read = NoValue =>
           \E w \in {g.last_write} \cup g.old_writes : Contents(o.value) = Contents(w) /\ (g.old_writes = {} => o.value = w))
  BY ReadOutcome
<1>2. HoldsIn(o.value, reset)
  BY <1>1 DEF Settled
<1>3. o.value # NoValue /\ (~ g.relaxed => g.old_writes = {})
  BY <1>1, NoValueIsNone DEF RegisterOK
<1> QED BY <1>1, <1>2, <1>3 DEF Settled

LEMMA SettledSynchronize ==
  ASSUME NEW r, NEW g, RegisterOK(r, g), NEW reset, Settled(g, reset)
  PROVE  Settled(Synchronize(g), reset)
BY DEF Settled, Synchronize, RegisterOK, RegisterType, IsInit

LEMMA SettledWrite ==
  ASSUME NEW r, NEW h, RegisterOK(r, h), NEW whole \in Values, NEW reset, HoldsIn(whole, reset)
  PROVE  Settled(Write(h, whole), reset)
<1>1. /\ RegisterOK(r, Write(h, whole)) /\ IsInit(Write(h, whole))
      /\ Write(h, whole).last_write = whole
      /\ Write(h, whole).last_read = (IF h.relaxed THEN whole ELSE NoValue)
      /\ Write(h, whole).old_writes = (IF h.relaxed /\ IsInit(h) THEN h.old_writes \cup {h.last_write} ELSE {})
  BY WriteOutcome
<1>2. whole # NoValue
  BY NoValueIsNone
<1> QED BY <1>1, <1>2 DEF Settled

(* What a step leaves: the reset holds, and the earlier ones it does not   *)
(* overlap.                                                                *)
ResetDone(k0, s, reset, b) ==
  /\ Good(k0, b) /\ SettledIn(b, reset)
  /\ \A p : IsReset(p) /\ SettledIn(s, p) /\ ~ Overlaps(p.loc, reset.loc) => SettledIn(b, p)

LEMMA AssignDone ==
  ASSUME NEW k0, NEW s, Good(k0, s), NEW reset, IsReset(reset), NEW a \in Assign(s, reset.loc, reset.value)
  PROVE  /\ ResetDone(k0, s, reset, a)
         /\ KnownOf(k0, a, reset.loc.reg).last # NoValue
         /\ KnownOf(k0, a, reset.loc.reg).now = KnownOf(k0, a, reset.loc.reg).last
         /\ reset.loc.acc = <<>> => KnownOf(k0, a, reset.loc.reg).now = Contents(reset.value)
         /\ reset.loc.acc # <<>> => KnownOf(k0, a, reset.loc.reg).now[reset.loc.acc[1]] = reset.value.v
<1> DEFINE loc == reset.loc
           value == reset.value
           q == loc.reg
           k == KnownOf(k0, s, q)
<1>1. loc \in Locations /\ value \in ValuesAt(loc) /\ q \in Regs
  BY DEF IsReset, Locations
<1>2. PICK h, whole : /\ Assigned(s, loc, value, a, h, whole)
                      /\ Explained(q, Write(h, whole), Seen(k, Ev("WriteReg", loc, whole), q))
                      /\ Agrees(k, Ev("WriteReg", loc, whole), q)
  BY <1>1, AssignOutcome
<1> DEFINE e == Ev("WriteReg", loc, whole)
<1>3. whole \in Values /\ RegisterOK(q, h) /\ a = Then(s, q, Write(h, whole), e)
  BY <1>2 DEF Assigned
<1>4. e \in RegEvents /\ e.ev = "WriteReg" /\ e.reg = q /\ e.val = whole
  BY <1>1, <1>3, EventType
<1>s. s \in States /\ RegisterOK(q, s.regs[q]) /\ \A r \in Regs : RegisterOK(r, s.regs[r])
  BY <1>1 DEF Good, Explained
<1> HIDE DEF e
<1>5. Good(k0, a) /\ KnownOf(k0, a, q) = Seen(k, e, q)
  BY <1>2, <1>3, <1>4, GoodEvent DEF e
<1>6. Seen(k, e, q) = SeenWrite(Before(k, e), Contents(whole))
  BY <1>4 DEF Seen
<1>7. KnownOf(k0, a, q).now = Contents(whole) /\ KnownOf(k0, a, q).last = Contents(whole)
  BY <1>5, <1>6 DEF SeenWrite
<1>8. Contents(whole) # NoValue
  BY <1>3, ContentsType, NoValueIsNone
<1>9. a.regs[q] = Write(h, whole) /\ \A r \in Regs \ {q} : a.regs[r] = s.regs[r]
  BY <1>1, <1>3, <1>s DEF Then, States
<1>10. CASE loc.acc = <<>>
  <2>1. whole = value
    BY <1>2, <1>10 DEF Assigned
  <2>2. HoldsIn(whole, reset)
    BY <1>10, <2>1 DEF HoldsIn
  <2>3. SettledIn(a, reset)
    BY <1>3, <1>9, <2>2, SettledWrite DEF SettledIn
  <2>4. ASSUME NEW p, IsReset(p), SettledIn(s, p), ~ Overlaps(p.loc, loc) PROVE SettledIn(a, p)
    <3>1. p.loc.reg \in Regs \ {q}
      BY <1>10, <2>4 DEF Overlaps, IsReset, Locations
    <3> QED BY <1>9, <2>4, <3>1 DEF SettledIn
  <2> QED BY <1>5, <1>7, <1>8, <1>10, <2>1, <2>3, <2>4 DEF ResetDone
<1>11. CASE loc.acc # <<>>
  <2>1. PICK o \in Read(s.regs[q]) : whole = WithField(o.value, loc.acc[1], value)
    BY <1>2, <1>11 DEF Assigned
  <2>2. PICK f \in Fields : loc.acc = <<f>> /\ loc.acc[1] = f
    BY <1>1, <1>11 DEF Locations
  <2>3. value \in FieldValues /\ o.value \in Values
    BY <1>1, <1>11, <1>s, ReadOutcome DEF ValuesAt
  <2>4. whole[f] = value /\ \A g \in Fields \ {f} : whole[g] = o.value[g]
    BY <2>1, <2>2, <2>3, ContentsExcept
  <2>5. Contents(whole)[f] = value.v
    BY <1>3, <2>4, ContentsType
  <2>6. HoldsIn(whole, reset)
    BY <1>11, <2>2, <2>4 DEF HoldsIn
  <2>7. SettledIn(a, reset)
    BY <1>3, <1>9, <2>6, SettledWrite DEF SettledIn
  <2>8. ASSUME NEW p, IsReset(p), SettledIn(s, p), ~ Overlaps(p.loc, loc) PROVE SettledIn(a, p)
    <3>1. CASE p.loc.reg # q
      BY <1>9, <2>8, <3>1 DEF SettledIn, IsReset, Locations
    <3>2. CASE p.loc.reg = q
      <4>1. p.loc.acc # <<>> /\ p.loc.acc # loc.acc
        BY <2>8, <3>2 DEF Overlaps
      <4>2. PICK g \in Fields : p.loc.acc = <<g>> /\ p.loc.acc[1] = g
        BY <2>8, <4>1 DEF IsReset, Locations
      <4>3. g # f
        BY <2>2, <4>1, <4>2
      <4>4. HoldsIn(o.value, p)
        BY <1>s, <2>8, <3>2, SettledRead DEF SettledIn
      <4>5. HoldsIn(whole, p)
        BY <2>4, <4>1, <4>2, <4>3, <4>4 DEF HoldsIn
      <4> QED BY <1>3, <1>9, <3>2, <4>5, SettledWrite DEF SettledIn
    <3> QED BY <3>1, <3>2
  <2> QED BY <1>5, <1>7, <1>8, <1>11, <2>2, <2>5, <2>7, <2>8 DEF ResetDone
<1> QED BY <1>10, <1>11

(* The assumption that follows the write of a reset.                       *)
LEMMA AssumeGood ==
  ASSUME NEW k0, NEW s, Good(k0, s), NEW reset, IsReset(reset),
         KnownOf(k0, s, reset.loc.reg).now # NoValue,
         reset.loc.acc = <<>> => KnownOf(k0, s, reset.loc.reg).now = Contents(reset.value),
         reset.loc.acc # <<>> => KnownOf(k0, s, reset.loc.reg).now[reset.loc.acc[1]] = reset.value.v
  PROVE  Good(k0, Assume(s, reset)) /\ Assume(s, reset).regs = s.regs
<1> DEFINE loc == reset.loc
           q == loc.reg
           k == KnownOf(k0, s, q)
           e == Ev("AssumeReg", loc, reset.value)
<1>1. loc \in Locations /\ reset.value \in Values \cup FieldValues /\ q \in Regs
  BY DEF IsReset, Locations, ValuesAt
<1>2. e \in RegEvents /\ e.ev = "AssumeReg" /\ e.reg = q /\ e.acc = loc.acc /\ e.val = reset.value
  BY <1>1, EventType
<1>3. s \in States /\ Explained(q, s.regs[q], k)
  BY <1>1 DEF Good
<1>4. Assume(s, reset) = Then(s, q, s.regs[q], e) /\ Assume(s, reset).regs = s.regs
  <2>1. s = [regs |-> s.regs, evs |-> s.evs] /\ [s.regs EXCEPT ![q] = s.regs[q]] = s.regs
    BY <1>1, <1>3 DEF States
  <2>2. Assume(s, reset) = [s EXCEPT !.evs = Append(@, e)]
    BY DEF Assume
  <2> HIDE DEF e
  <2>3. Assume(s, reset) = [regs |-> s.regs, evs |-> Append(s.evs, e)]
    BY <1>3, <2>2 DEF States
  <2> DEFINE same == [s.regs EXCEPT ![q] = s.regs[q]]
  <2>4. Then(s, q, s.regs[q], e) = [regs |-> same, evs |-> Append(s.evs, e)]
    BY DEF Then
  <2>5. same = s.regs
    BY <2>1
  <2> HIDE DEF same
  <2> QED BY <2>3, <2>4, <2>5
<1> HIDE DEF e, k
<1>5. Seen(k, e, q) = k
  BY <1>2 DEF Seen
<1>6. Agrees(k, e, q)
  BY <1>2 DEF Agrees, k
<1> QED BY <1>2, <1>3, <1>4, <1>5, <1>6, GoodEvent DEF k

LEMMA ApplyReset ==
  ASSUME NEW k0, NEW starts, \A s \in starts : Good(k0, s), NEW reset, IsReset(reset),
         NEW b \in apply_reset(starts, reset)
  PROVE  \E s \in starts : ResetDone(k0, s, reset, b)
<1>1. PICK s \in starts : \E a \in Assign(s, reset.loc, reset.value) : b = Assume(a, reset)
  BY DEF apply_reset
<1>2. PICK a \in Assign(s, reset.loc, reset.value) : b = Assume(a, reset)
  BY <1>1
<1>3. /\ ResetDone(k0, s, reset, a)
      /\ KnownOf(k0, a, reset.loc.reg).last # NoValue
      /\ KnownOf(k0, a, reset.loc.reg).now = KnownOf(k0, a, reset.loc.reg).last
      /\ reset.loc.acc = <<>> => KnownOf(k0, a, reset.loc.reg).now = Contents(reset.value)
      /\ reset.loc.acc # <<>> => KnownOf(k0, a, reset.loc.reg).now[reset.loc.acc[1]] = reset.value.v
  BY <1>2, AssignDone
<1>4. Good(k0, b) /\ b.regs = a.regs
  BY <1>2, <1>3, AssumeGood DEF ResetDone
<1>5. ResetDone(k0, s, reset, b)
  BY <1>3, <1>4 DEF ResetDone, SettledIn
<1> QED BY <1>5

LEMMA ApplySharedReset ==
  ASSUME NEW k0, NEW starts, \A s \in starts : Good(k0, s), NEW reset, IsReset(reset),
         NEW b \in apply_shared_reset(starts, reset)
  PROVE  \E s \in starts : ResetDone(k0, s, reset, b)
<1> DEFINE q == reset.loc.reg
<1>1. PICK s \in starts : \E a \in Assign(s, reset.loc, reset.value) : b = Assume(SyncRegister(a, q), reset)
  BY DEF apply_shared_reset
<1>2. PICK a \in Assign(s, reset.loc, reset.value) : b = Assume(SyncRegister(a, q), reset)
  BY <1>1
<1>3. /\ ResetDone(k0, s, reset, a)
      /\ KnownOf(k0, a, q).last # NoValue
      /\ KnownOf(k0, a, q).now = KnownOf(k0, a, q).last
      /\ reset.loc.acc = <<>> => KnownOf(k0, a, q).now = Contents(reset.value)
      /\ reset.loc.acc # <<>> => KnownOf(k0, a, q).now[reset.loc.acc[1]] = reset.value.v
  BY <1>2, AssignDone
<1>4. q \in Regs /\ a \in States /\ \A r \in Regs : Explained(r, a.regs[r], KnownOf(k0, a, r))
  BY <1>3 DEF IsReset, Locations, ResetDone, Good
<1> DEFINE g == Synchronize(a.regs[q])
           c == [a EXCEPT !.regs[q] = g]
<1>5. c = SyncRegister(a, q)
  BY DEF SyncRegister
<1>6. Explained(q, g, KnownOf(k0, a, q))
  BY <1>3, <1>4, SynchronizeExplained
<1>7. c.regs[q] = g /\ \A r \in Regs \ {q} : c.regs[r] = a.regs[r]
  BY <1>4 DEF States
<1>8. Good(k0, c) /\ KnownOf(k0, c, q) = KnownOf(k0, a, q)
  <2> HIDE DEF g
  <2> QED BY <1>3, <1>4, <1>6, GoodSilent DEF ResetDone
<1>9. Good(k0, b) /\ b.regs = c.regs
  <2> HIDE DEF c
  <2> QED BY <1>2, <1>3, <1>5, <1>8, AssumeGood
<1>10. ASSUME NEW p, IsReset(p), SettledIn(a, p) PROVE SettledIn(b, p)
  <2>1. p.loc.reg \in Regs
    BY <1>10 DEF IsReset, Locations
  <2>2. CASE p.loc.reg = q
    <3>1. Settled(g, p)
      BY <1>4, <1>10, <2>2, SettledSynchronize DEF SettledIn, Explained
    <3> HIDE DEF g, c
    <3> QED BY <1>7, <1>9, <2>2, <3>1 DEF SettledIn
  <2>3. CASE p.loc.reg # q
    <3> HIDE DEF g, c
    <3> QED BY <1>7, <1>9, <1>10, <2>1, <2>3 DEF SettledIn
  <2> QED BY <2>2, <2>3
<1>11. ResetDone(k0, s, reset, b)
  BY <1>3, <1>9, <1>10 DEF ResetDone
<1> QED BY <1>11

(* After a sequence of resets the last at every place holds, and what held *)
(* before and they do not overlap.                                         *)
SequenceDone(k0, P, resets, s) ==
  /\ Good(k0, s)
  /\ \A i \in DOMAIN resets :
       (\A j \in DOMAIN resets : j > i => ~ Overlaps(resets[i].loc, resets[j].loc)) => SettledIn(s, resets[i])
  /\ \A p \in P : (\A j \in DOMAIN resets : ~ Overlaps(p.loc, resets[j].loc)) => SettledIn(s, p)

LEMMA SequenceStep ==
  ASSUME NEW k0, NEW P, \A p \in P : IsReset(p), NEW E, \A x \in E : IsReset(x),
         NEW q \in Seq(E), NEW reset \in E, NEW s, SequenceDone(k0, P, q, s), NEW b, ResetDone(k0, s, reset, b)
  PROVE  SequenceDone(k0, P, Append(q, reset), b)
<1> DEFINE t == Append(q, reset)
           n == Len(q)
<1>1. /\ n \in Nat /\ DOMAIN q = 1..n /\ DOMAIN t = 1..(n + 1) /\ t[n + 1] = reset
      /\ \A i \in 1..n : t[i] = q[i] /\ q[i] \in E
  OBVIOUS
<1>2. n + 1 \in DOMAIN t /\ \A i \in 1..n : i \in DOMAIN t /\ n + 1 > i
  BY <1>1
<1> HIDE DEF t, n
<1>3. Good(k0, b) /\ SettledIn(b, reset)
  BY DEF ResetDone
<1>4. ASSUME NEW i \in DOMAIN t, \A j \in DOMAIN t : j > i => ~ Overlaps(t[i].loc, t[j].loc)
      PROVE  SettledIn(b, t[i])
  <2>1. CASE i = n + 1
    BY <1>1, <1>3, <2>1
  <2>2. CASE i # n + 1
    <3>1. i \in 1..n
      BY <1>1, <2>2
    <3>2. \A j \in DOMAIN q : j > i => ~ Overlaps(q[i].loc, q[j].loc)
      BY <1>1, <1>2, <1>4, <3>1
    <3>3. ~ Overlaps(q[i].loc, reset.loc)
      BY <1>1, <1>2, <1>4, <3>1
    <3>4. SettledIn(s, q[i]) /\ IsReset(q[i])
      BY <1>1, <3>1, <3>2 DEF SequenceDone
    <3> QED BY <1>1, <3>1, <3>3, <3>4 DEF ResetDone
  <2> QED BY <2>1, <2>2
<1>5. ASSUME NEW p \in P, \A j \in DOMAIN t : ~ Overlaps(p.loc, t[j].loc) PROVE SettledIn(b, p)
  <2>1. \A j \in DOMAIN q : ~ Overlaps(p.loc, q[j].loc)
    BY <1>1, <1>2, <1>5
  <2>2. ~ Overlaps(p.loc, reset.loc)
    BY <1>1, <1>2, <1>5
  <2>3. SettledIn(s, p) /\ IsReset(p)
    BY <2>1 DEF SequenceDone
  <2> QED BY <2>2, <2>3 DEF ResetDone
<1> QED BY <1>3, <1>4, <1>5 DEF SequenceDone, t

LEMMA PlainResets ==
  ASSUME NEW k0, NEW P, \A p \in P : IsReset(p), NEW starts, NEW E, \A x \in E : IsReset(x), NEW resets \in Seq(E),
         \A s \in starts : Good(k0, s) /\ \A p \in P : SettledIn(s, p)
  PROVE  \A b \in Plain!fold(starts, resets) : SequenceDone(k0, P, resets, b)
<1> DEFINE Rel == {x \in Seq(E) \X SUBSET States : \A b \in x[2] : SequenceDone(k0, P, x[1], b)}
<1>1. << <<>>, starts >> \in Rel
  <2>1. starts \in SUBSET States /\ <<>> \in Seq(E)
    BY DEF Good
  <2>2. \A b \in starts : SequenceDone(k0, P, <<>>, b)
    BY DEF SequenceDone
  <2> QED BY <2>1, <2>2
<1>2. ASSUME NEW q \in Seq(E), NEW e \in E, NEW acc, <<q, acc>> \in Rel
      PROVE  <<Append(q, e), apply_reset(acc, e)>> \in Rel
  <2>1. \A s \in acc : SequenceDone(k0, P, q, s)
    BY <1>2
  <2>2. \A b \in apply_reset(acc, e) : SequenceDone(k0, P, Append(q, e), b) /\ b \in States
    <3> TAKE b \in apply_reset(acc, e)
    <3>1. PICK s \in acc : ResetDone(k0, s, e, b)
      <4>1. IsReset(e) /\ \A s \in acc : Good(k0, s)
        BY <2>1 DEF SequenceDone
      <4> QED BY <4>1, ApplyReset
    <3>2. SequenceDone(k0, P, Append(q, e), b)
      BY <2>1, <3>1, SequenceStep
    <3> QED BY <3>2 DEF SequenceDone, Good
  <2>3. Append(q, e) \in Seq(E)
    OBVIOUS
  <2> QED BY <2>2, <2>3
<1> HIDE DEF Rel
<1>3. <<resets, Plain!fold(starts, resets)>> \in Rel
  BY <1>1, <1>2, Plain!FoldInduct
<1> QED BY <1>3 DEF Rel

LEMMA SharedResetsDone ==
  ASSUME NEW k0, NEW P, \A p \in P : IsReset(p), NEW starts, NEW E, \A x \in E : IsReset(x), NEW resets \in Seq(E),
         \A s \in starts : Good(k0, s) /\ \A p \in P : SettledIn(s, p)
  PROVE  \A b \in Shared!fold(starts, resets) : SequenceDone(k0, P, resets, b)
<1> DEFINE Rel == {x \in Seq(E) \X SUBSET States : \A b \in x[2] : SequenceDone(k0, P, x[1], b)}
<1>1. << <<>>, starts >> \in Rel
  <2>1. starts \in SUBSET States /\ <<>> \in Seq(E)
    BY DEF Good
  <2>2. \A b \in starts : SequenceDone(k0, P, <<>>, b)
    BY DEF SequenceDone
  <2> QED BY <2>1, <2>2
<1>2. ASSUME NEW q \in Seq(E), NEW e \in E, NEW acc, <<q, acc>> \in Rel
      PROVE  <<Append(q, e), apply_shared_reset(acc, e)>> \in Rel
  <2>1. \A s \in acc : SequenceDone(k0, P, q, s)
    BY <1>2
  <2>2. \A b \in apply_shared_reset(acc, e) : SequenceDone(k0, P, Append(q, e), b) /\ b \in States
    <3> TAKE b \in apply_shared_reset(acc, e)
    <3>1. PICK s \in acc : ResetDone(k0, s, e, b)
      <4>1. IsReset(e) /\ \A s \in acc : Good(k0, s)
        BY <2>1 DEF SequenceDone
      <4> QED BY <4>1, ApplySharedReset
    <3>2. SequenceDone(k0, P, Append(q, e), b)
      BY <2>1, <3>1, SequenceStep
    <3> QED BY <3>2 DEF SequenceDone, Good
  <2>3. Append(q, e) \in Seq(E)
    OBVIOUS
  <2> QED BY <2>2, <2>3
<1> HIDE DEF Rel
<1>3. <<resets, Shared!fold(starts, resets)>> \in Rel
  BY <1>1, <1>2, Shared!FoldInduct
<1> QED BY <1>3 DEF Rel

(* A hash map is iterated over every entry, once.                          *)
LEMMA OrderIsComplete ==
  ASSUME NEW S, IsFiniteSet(S), NEW order \in Orders(S)
  PROVE  /\ order \in Seq(S) /\ \A i, j \in DOMAIN order : order[i] = order[j] => i = j
         /\ \A x \in S : \E i \in DOMAIN order : order[i] = x
<1> DEFINE n == Cardinality(S)
<1>1. n \in Nat
  BY FS_CardinalityType
<1>2. order \in Injection(1..n, S)
  BY DEF Orders
<1>3. order \in [1..n -> S] /\ \A i, j \in 1..n : order[i] = order[j] => i = j
  BY <1>2 DEF Injection, IsInjective
<1>4. IsFiniteSet(1..n) /\ Cardinality(1..n) = n
  BY <1>1, FS_Interval
<1>5. order \in Surjection(1..n, S)
  BY <1>2, <1>4, FS_Injection
<1>6. \A x \in S : \E i \in 1..n : order[i] = x
  BY <1>5 DEF Surjection
<1> HIDE DEF n
<1> QED BY <1>1, <1>3, <1>6

(* The entries that no other entry overlaps hold after the iteration.      *)
LEMMA OrderSettles ==
  ASSUME NEW S, IsFiniteSet(S), NEW order \in Orders(S), NEW k0, NEW P, NEW s, SequenceDone(k0, P, order, s)
  PROVE  /\ Good(k0, s) /\ \A reset \in S : Alone(reset, S) => SettledIn(s, reset)
         /\ \A p \in P : (\A x \in S : ~ Overlaps(p.loc, x.loc)) => SettledIn(s, p)
<1>1. /\ order \in Seq(S) /\ \A i, j \in DOMAIN order : order[i] = order[j] => i = j
      /\ \A x \in S : \E i \in DOMAIN order : order[i] = x
  BY OrderIsComplete
<1>2. \A i \in DOMAIN order : order[i] \in S /\ i \in Nat
  BY <1>1
<1>3. ASSUME NEW reset \in S, Alone(reset, S) PROVE SettledIn(s, reset)
  <2>1. PICK i \in DOMAIN order : order[i] = reset
    BY <1>1
  <2>2. \A j \in DOMAIN order : j > i => order[j] # reset
    BY <1>1, <1>2, <2>1
  <2>3. \A j \in DOMAIN order : j > i => ~ Overlaps(order[i].loc, order[j].loc)
    BY <1>2, <1>3, <2>1, <2>2 DEF Alone
  <2> QED BY <2>1, <2>3 DEF SequenceDone
<1>4. ASSUME NEW p \in P, \A x \in S : ~ Overlaps(p.loc, x.loc) PROVE SettledIn(s, p)
  BY <1>2, <1>4 DEF SequenceDone
<1> QED BY <1>3, <1>4 DEF SequenceDone

(* What reset_registers promises of a state.                               *)
Promised(s) ==
  /\ \A reset \in TaskResets : Alone(reset, TaskResets) => SettledIn(s, reset)
  /\ \A reset \in SharedResets : Alone(reset, NotReplaced) /\ Alone(reset, TaskResets) => SettledIn(s, reset)

(* The shared resets come first, so that the task's hold whatever they are. *)
LEMMA ResetPromises ==
  ASSUME NEW k0, NEW s, Good(k0, s), NEW b \in Reset({s})
  PROVE  Good(k0, b) /\ Promised(b)
<1> DEFINE P == {reset \in NotReplaced : Alone(reset, NotReplaced)}
<1>1. PICK shared \in Orders(NotReplaced), mine \in Orders(TaskResets) :
        b \in Plain!fold(Shared!fold({s}, shared), mine)
  BY DEF Reset
<1>2. IsFiniteSet(TaskResets) /\ \A x \in TaskResets : IsReset(x)
  BY MachineAssumption
<1>3. IsFiniteSet(NotReplaced) /\ \A x \in NotReplaced : IsReset(x)
  BY MachineAssumption, FS_Subset DEF NotReplaced
<1>4. shared \in Seq(NotReplaced) /\ mine \in Seq(TaskResets)
  BY <1>1, <1>2, <1>3, OrderIsComplete
<1>5. \A c \in Shared!fold({s}, shared) : SequenceDone(k0, {}, shared, c)
  BY <1>3, <1>4, SharedResetsDone
<1>6. \A c \in Shared!fold({s}, shared) : Good(k0, c) /\ \A p \in P : SettledIn(c, p)
  BY <1>1, <1>3, <1>5, OrderSettles
<1>7. SequenceDone(k0, P, mine, b)
  BY <1>1, <1>2, <1>3, <1>4, <1>6, PlainResets
<1>8. /\ Good(k0, b) /\ \A reset \in TaskResets : Alone(reset, TaskResets) => SettledIn(b, reset)
      /\ \A p \in P : (\A x \in TaskResets : ~ Overlaps(p.loc, x.loc)) => SettledIn(b, p)
  BY <1>1, <1>2, <1>7, OrderSettles
<1>9. ASSUME NEW reset \in SharedResets, Alone(reset, NotReplaced), Alone(reset, TaskResets)
      PROVE  SettledIn(b, reset)
  <2>1. CASE reset \in TaskResets
    BY <1>8, <1>9, <2>1
  <2>2. CASE reset \notin TaskResets
    <3>1. \A x \in TaskResets : ~ Overlaps(reset.loc, x.loc)
      BY <1>9, <2>2 DEF Alone
    <3>2. reset.loc \notin TaskLocs
      BY <3>1 DEF TaskLocs, Overlaps
    <3> QED BY <1>8, <1>9, <3>1, <3>2 DEF NotReplaced
  <2> QED BY <2>1, <2>2
<1> QED BY <1>8, <1>9 DEF Promised

-----------------------------------------------------------------------------
(* Reads that keep what a reset promised.                                  *)

LEMMA LookUpKeeps ==
  ASSUME NEW k0, NEW P, \A p \in P : IsReset(p), NEW s, Good(k0, s), \A p \in P : SettledIn(s, p),
         NEW loc \in Locations, NEW x \in Get(s, loc, FALSE)
  PROVE  Good(k0, x.s) /\ \A p \in P : SettledIn(x.s, p)
<1> DEFINE q == loc.reg
<1>1. Good(k0, x.s)
  BY GoodGet
<1>2. PICK o \in Read(s.regs[q]) : GotFrom(s, loc, x.s, o)
  BY GoodGet
<1>3. s \in States /\ q \in Regs /\ RegisterOK(q, s.regs[q])
  BY DEF Good, Locations, Explained
<1>4. x.s.regs[q] = o.reg /\ \A r \in Regs \ {q} : x.s.regs[r] = s.regs[r]
  BY <1>2 DEF GotFrom
<1>5. ASSUME NEW p \in P PROVE SettledIn(x.s, p)
  <2>1. p.loc.reg \in Regs
    BY DEF IsReset, Locations
  <2>2. CASE p.loc.reg = q
    BY <1>2, <1>3, <1>4, <2>2, SettledRead DEF SettledIn
  <2>3. CASE p.loc.reg # q
    BY <1>4, <2>1, <2>3 DEF SettledIn
  <2> QED BY <2>2, <2>3
<1> QED BY <1>1, <1>5

LEMMA LookupsKeep ==
  ASSUME NEW k0, NEW P, \A p \in P : IsReset(p), NEW starts, \A s \in starts : Good(k0, s) /\ \A p \in P : SettledIn(s, p),
         NEW locs \in Seq(Locations)
  PROVE  \A a \in Lookups(starts, locs) : Good(k0, a.s) /\ \A p \in P : SettledIn(a.s, p)
<1> DEFINE Vs == Values \cup FieldValues
           T == {a \in [s : States, vals : Seq(Vs)] : Good(k0, a.s) /\ \A p \in P : SettledIn(a.s, p)}
           base == {[s |-> s, vals |-> <<>>] : s \in starts}
<1>1. base \in SUBSET T
  <2>1. <<>> \in Seq(Vs) /\ \A s \in starts : s \in States
    BY DEF Good
  <2> HIDE DEF Vs
  <2>2. ASSUME NEW s \in starts PROVE [s |-> s, vals |-> <<>>] \in T
    BY <2>1
  <2> HIDE DEF T
  <2> QED BY <2>2
<1>2. ASSUME NEW acc \in SUBSET T, NEW loc \in Locations PROVE look_up(acc, loc) \in SUBSET T
  <2> SUFFICES ASSUME NEW b \in look_up(acc, loc) PROVE b \in T
    OBVIOUS
  <2>1. PICK a \in acc : \E x \in Get(a.s, loc, FALSE) : b = [s |-> x.s, vals |-> Append(a.vals, x.value)]
    BY DEF look_up
  <2>2. PICK x \in Get(a.s, loc, FALSE) : b = [s |-> x.s, vals |-> Append(a.vals, x.value)]
    BY <2>1
  <2>3. a.vals \in Seq(Vs) /\ Good(k0, a.s) /\ \A p \in P : SettledIn(a.s, p)
    BY <2>1
  <2>4. Good(k0, x.s) /\ \A p \in P : SettledIn(x.s, p)
    BY <2>2, <2>3, LookUpKeeps
  <2>5. x.value \in Vs
    BY <2>2, <2>3, GoodGet
  <2>6. Append(a.vals, x.value) \in Seq(Vs)
    BY <2>3, <2>5
  <2>7. x.s \in States
    BY <2>4 DEF Good
  <2> HIDE DEF Vs
  <2> QED BY <2>2, <2>4, <2>6, <2>7
<1> HIDE DEF T, base
<1>3. Looked!fold(base, locs) \in SUBSET T
  BY <1>1, <1>2, Looked!FoldType
<1> QED BY <1>3 DEF Lookups, T, base

(* The triggers of interrupts are read without events.                     *)
LEMMA ScanGood ==
  ASSUME NEW k0, NEW s, Good(k0, s)
  PROVE  \A a \in Triggers!fold({[s |-> s, k |-> 0, bad |-> FALSE]}, [k \in DOMAIN Interrupts |-> k]) :
           Good(k0, a.s) /\ a.s.evs = s.evs /\ a.k \in {0} \cup DOMAIN Interrupts
<1> DEFINE E == DOMAIN Interrupts
           T == {a \in [s : States, k : {0} \cup E, bad : BOOLEAN] : Good(k0, a.s) /\ a.s.evs = s.evs}
           base == {[s |-> s, k |-> 0, bad |-> FALSE]}
           order == [k \in E |-> k]
<1>1. base \in SUBSET T
  BY DEF Good
<1>2. ASSUME NEW acc \in SUBSET T, NEW k \in E PROVE scan_trigger(acc, k) \in SUBSET T
  <2> SUFFICES ASSUME NEW b \in scan_trigger(acc, k) PROVE b \in T
    OBVIOUS
  <2> DEFINE q == Interrupts[k].reg
  <2>1. q \in Regs /\ q \in Silent
    BY MachineAssumption DEF Silent
  <2>2. PICK a \in acc :
          b \in IF a.k # 0 \/ a.bad THEN {a}
                ELSE {[s |-> [a.s EXCEPT !.regs[q] = r.reg], bad |-> ~ ConcreteValue(r.value),
                       k |-> IF ConcreteValue(r.value) /\ Contents(r.value) = Contents(Interrupts[k].value)
                             THEN k ELSE 0] : r \in Read(a.s.regs[q])}
    BY DEF scan_trigger
  <2>3. CASE b = a
    BY <2>2, <2>3
  <2>4. CASE b # a
    <3>1. PICK r \in Read(a.s.regs[q]) :
            b = [s |-> [a.s EXCEPT !.regs[q] = r.reg], bad |-> ~ ConcreteValue(r.value),
                 k |-> IF ConcreteValue(r.value) /\ Contents(r.value) = Contents(Interrupts[k].value) THEN k ELSE 0]
      BY <2>2, <2>4
    <3>2. Good(k0, a.s) /\ a.s \in States /\ a.s.evs = s.evs
      BY <2>2 DEF Good
    <3>3. Explained(q, a.s.regs[q], KnownOf(k0, a.s, q))
      BY <2>1, <3>2 DEF Good
    <3>4. Explained(q, r.reg, KnownOf(k0, a.s, q))
      BY <2>1, <3>1, <3>3, ReadExplained
    <3>5. Good(k0, [a.s EXCEPT !.regs[q] = r.reg])
      BY <2>1, <3>2, <3>4, GoodSilent
    <3>6. b.s = [a.s EXCEPT !.regs[q] = r.reg] /\ b.k \in {0} \cup E /\ b.bad \in BOOLEAN
          /\ b = [s |-> b.s, k |-> b.k, bad |-> b.bad]
      BY <3>1
    <3>7. b.s.evs = s.evs
      BY <3>2, <3>6 DEF States
    <3>8. Good(k0, b.s) /\ b.s \in States
      BY <3>5, <3>6 DEF Good
    <3> QED BY <3>6, <3>7, <3>8
  <2> QED BY <2>3, <2>4
<1>3. order \in Seq(E)
  <2>1. PICK n \in Nat : E = 1..n
    <3>1. Interrupts \in Seq(Range(Interrupts))
      BY MachineAssumption
    <3> QED BY <3>1
  <2> QED BY <2>1
<1> HIDE DEF T, base, order, E
<1>4. Triggers!fold(base, order) \in SUBSET T
  BY <1>1, <1>2, <1>3, Triggers!FoldType
<1> QED BY <1>4 DEF T, base, order, E

-----------------------------------------------------------------------------
(* Between operations.                                                     *)

MachineInv ==
  /\ regs \in [Regs -> RegisterType] /\ seen \in [Regs -> Knowledge]
  /\ \A r \in Regs : Explained(r, regs[r], seen[r])

NoAssumption(evs) == \A i \in DOMAIN evs : evs[i].ev # "AssumeReg"

LEMMA StartGood == MachineInv => Good(seen, Start) /\ \A r \in Regs : KnownOf(seen, Start, r) = seen[r]
<1> SUFFICES ASSUME MachineInv PROVE Good(seen, Start) /\ \A r \in Regs : KnownOf(seen, Start, r) = seen[r]
  OBVIOUS
<1> DEFINE R == [known |-> seen, ok |-> TRUE]
<1>1. Start.regs = regs /\ Start.evs = <<>> /\ Start \in States
  BY DEF Start, States, MachineInv
<1>2. ReplayFrom(seen, Start.evs) = R
  BY <1>1, Trace!FoldEmpty DEF ReplayFrom
<1>3. R \in Replayed /\ R.ok /\ R.known = seen
  BY DEF Replayed, MachineInv
<1> HIDE DEF R
<1> QED BY <1>1, <1>2, <1>3 DEF Good, KnownOf, MachineInv

(* The events of an operation that ends in a Good state.                   *)
LEMMA GoodEnds ==
  ASSUME NEW s, Good(seen, s)
  PROVE  /\ Replay(s.evs).ok /\ Replay(s.evs).known \in [Regs -> Knowledge] /\ s.regs \in [Regs -> RegisterType]
         /\ \A r \in Regs : Explained(r, s.regs[r], Replay(s.evs).known[r])
<1>1. Replay(s.evs) = ReplayFrom(seen, s.evs)
  BY DEF Replay, ReplayFrom
<1> QED BY <1>1 DEF Good, KnownOf, Replayed, States

(* An event that stands alone.                                             *)
LEMMA ReplayOne ==
  ASSUME NEW e
  PROVE  /\ Replay(<<e>>).known = [r \in Regs |-> Seen(seen[r], e, r)]
         /\ Replay(<<e>>).ok = \A r \in Regs : Agrees(seen[r], e, r)
<1> DEFINE R == [known |-> seen, ok |-> TRUE]
           none == <<>>
<1>1. none \in Seq({e}) /\ e \in {e} /\ <<e>> = Append(none, e)
  OBVIOUS
<1>2. Trace!fold(R, none) = R
  BY Trace!FoldEmpty
<1> HIDE DEF none, R
<1>3. Trace!fold(R, Append(none, e)) = replay(Trace!fold(R, none), e)
  BY <1>1, Trace!FoldAppend
<1>4. Replay(<<e>>) = replay(R, e)
  BY <1>1, <1>2, <1>3 DEF Replay, R
<1>5. R.known = seen /\ R.ok = TRUE
  BY DEF R
<1> DEFINE K == [r \in Regs |-> Seen(seen[r], e, r)]
           A == \A r \in Regs : Agrees(seen[r], e, r)
<1>6. replay(R, e) = [known |-> K, ok |-> TRUE /\ A]
  BY <1>5 DEF replay
<1>7. (TRUE /\ A) = A
  OBVIOUS
<1> HIDE DEF K, A
<1>8. replay(R, e).known = K /\ replay(R, e).ok = (TRUE /\ A)
  BY <1>6
<1> QED BY <1>4, <1>7, <1>8 DEF K, A

(* A step: the registers are explained after it, its events agree, and the *)
(* resets hold if it applied any.                                          *)
StepKeeps == MachineInv' /\ Replay(events').ok /\ RegistersReset

LEMMA GoodStep ==
  ASSUME NEW s, Good(seen, s), regs' = s.regs, events' = s.evs, seen' = Replay(events').known, RegistersReset
  PROVE  StepKeeps
BY GoodEnds DEF StepKeeps, MachineInv

LEMMA NoReset == NoAssumption(events') => RegistersReset
BY DEF NoAssumption, RegistersReset, ResetsApplied

LEMMA NoneAssumed == NoAssumption(<<>>) /\ \A e : e.ev # "AssumeReg" => NoAssumption(<<e>>)
BY DEF NoAssumption

LEMMA ReadKeeps ==
  ASSUME MachineInv, NEW loc \in Locations, NEW x \in Get(Start, loc, FALSE), NEW value, Done(x.s, value),
         seen' = Replay(events').known
  PROVE  StepKeeps
<1>1. Good(seen, Start) /\ Start.evs = <<>>
  BY StartGood DEF Start
<1>2. PICK o \in Read(Start.regs[loc.reg]) : GotFrom(Start, loc, x.s, o)
  BY <1>1, GoodGet
<1> DEFINE e == Ev("ReadReg", loc, o.value)
<1>3. e.ev = "ReadReg"
  BY DEF Ev
<1> HIDE DEF e
<1>4. x.s.evs = <<e>>
  BY <1>1, <1>2 DEF GotFrom, e
<1>5. RegistersReset
  BY <1>3, <1>4, NoneAssumed, NoReset DEF Done
<1> QED BY <1>1, <1>5, GoodGet, GoodStep DEF Done

LEMMA WriteKeeps ==
  ASSUME MachineInv, NEW loc \in Locations, NEW value \in ValuesAt(loc), NEW a \in Assign(Start, loc, value),
         NEW result, Done(a, result), seen' = Replay(events').known
  PROVE  StepKeeps
<1> DEFINE reset == [loc |-> loc, value |-> value]
<1>1. Good(seen, Start) /\ Start.evs = <<>>
  BY StartGood DEF Start
<1>2. reset.loc = loc /\ reset.value = value /\ IsReset(reset)
  BY DEF IsReset
<1> HIDE DEF reset
<1>3. Good(seen, a)
  BY <1>1, <1>2, AssignDone DEF ResetDone
<1>4. PICK h, whole : Assigned(Start, loc, value, a, h, whole)
  BY <1>1, AssignOutcome
<1> DEFINE e == Ev("WriteReg", loc, whole)
<1>5. e.ev = "WriteReg"
  BY DEF Ev
<1> HIDE DEF e
<1>6. a.evs = <<e>>
  BY <1>1, <1>4 DEF Assigned, Then, e
<1>7. RegistersReset
  BY <1>5, <1>6, NoneAssumed, NoReset DEF Done
<1> QED BY <1>3, <1>7, GoodStep DEF Done

(* A path that ends, or an operation on nothing.                           *)
LEMMA NothingKeeps ==
  ASSUME MachineInv, regs' = regs, events' = <<>>, seen' = Replay(events').known
  PROVE  StepKeeps /\ seen' = seen
<1>1. Good(seen, Start) /\ Start.evs = <<>> /\ Start.regs = regs
  BY StartGood DEF Start
<1>2. RegistersReset
  BY NoneAssumed, NoReset
<1>3. Replay(<<>>).known = seen
  BY Trace!FoldEmpty DEF Replay
<1> QED BY <1>1, <1>2, <1>3, GoodStep

(* The registers of the vector are distinct, so each is read once.         *)
LEMMA VectorRead ==
  ASSUME MachineInv, NEW outs \in VectorReads, NEW r \in Range(VectorRegs)
  PROVE  /\ VectorIndex(r) \in DOMAIN VectorRegs /\ VectorRegs[VectorIndex(r)] = r /\ r \in Regs
         /\ outs[VectorIndex(r)] \in Read(regs[r]) /\ outs[VectorIndex(r)].value \in Values
         /\ Vals(outs)[VectorIndex(r)] = outs[VectorIndex(r)].value
<1> DEFINE j == VectorIndex(r)
<1>1. \E i \in DOMAIN VectorRegs : VectorRegs[i] = r
  BY DEF Range
<1>2. j \in DOMAIN VectorRegs /\ VectorRegs[j] = r
  BY <1>1 DEF VectorIndex
<1>3. VectorRegs \in Seq(Regs)
  BY MachineAssumption
<1> HIDE DEF j
<1>4. r \in Regs
  BY <1>2, <1>3
<1>5. outs[j] \in Read(regs[r])
  BY <1>2 DEF VectorReads
<1>6. outs[j].value \in Values
  BY <1>4, <1>5, ReadOutcome DEF MachineInv, Explained
<1>7. Vals(outs)[j] = outs[j].value
  BY <1>2 DEF Vals
<1> QED BY <1>2, <1>4, <1>5, <1>6, <1>7 DEF j

(* An event of the vector.                                                 *)
VectorEvent(kind, i, outs, value) == [ev |-> kind, index |-> i, vals |-> Vals(outs), val |-> value]

LEMMA VectorStep ==
  ASSUME NEW e, e.ev # "AssumeReg", events' = <<e>>, seen' = Replay(events').known, regs' \in [Regs -> RegisterType],
         \A r \in Regs : Agrees(seen[r], e, r) /\ Explained(r, regs'[r], Seen(seen[r], e, r))
  PROVE  StepKeeps
<1>1. seen' = [r \in Regs |-> Seen(seen[r], e, r)] /\ Replay(events').ok
  BY ReplayOne
<1>2. \A r \in Regs : seen'[r] = Seen(seen[r], e, r) /\ Explained(r, regs'[r], seen'[r])
  BY <1>1
<1>3. seen' \in [Regs -> Knowledge]
  BY <1>1, <1>2 DEF Explained
<1>4. RegistersReset
  BY NoneAssumed, NoReset
<1> QED BY <1>1, <1>2, <1>3, <1>4 DEF StepKeeps, MachineInv

LEMMA ReadVectorKeeps ==
  ASSUME MachineInv, NEW i \in DOMAIN VectorRegs, NEW symbolic \in BOOLEAN, ReadVector(i, symbolic),
         seen' = Replay(events').known
  PROVE  StepKeeps
<1>1. CASE ~ symbolic
  <2>1. PICK x \in Get(Start, Whole(VectorRegs[i]), FALSE) : Done(x.s, x.value)
    BY <1>1 DEF ReadVector
  <2>2. Whole(VectorRegs[i]) \in Locations
    <3>1. VectorRegs[i] \in Regs
      BY MachineAssumption
    <3> QED BY <3>1 DEF Whole, Locations
  <2> QED BY <2>1, <2>2, ReadKeeps
<1>2. CASE symbolic
  <2>1. PICK outs \in VectorReads :
          Done([regs |-> [r \in Regs |-> IF r \in Range(VectorRegs) THEN outs[VectorIndex(r)].reg ELSE regs[r]],
                evs |-> <<VectorEvent("ReadVector", i, outs, Symbolic(outs[i].value))>>], Symbolic(outs[i].value))
    BY <1>2 DEF ReadVector, VectorEvent
  <2> DEFINE e == VectorEvent("ReadVector", i, outs, Symbolic(outs[i].value))
  <2>2. events' = <<e>> /\ regs' = [r \in Regs |-> IF r \in Range(VectorRegs) THEN outs[VectorIndex(r)].reg ELSE regs[r]]
    BY <2>1 DEF Done
  <2>3. e.ev = "ReadVector" /\ e.vals = Vals(outs)
    BY DEF VectorEvent
  <2> HIDE DEF e
  <2>4. ASSUME NEW r \in Regs PROVE Agrees(seen[r], e, r) /\ Explained(r, regs'[r], Seen(seen[r], e, r))
    <3>1. Explained(r, regs[r], seen[r])
      BY DEF MachineInv
    <3>2. CASE r \in Range(VectorRegs)
      <4> DEFINE o == outs[VectorIndex(r)]
      <4>1. o \in Read(regs[r]) /\ VectorVal(e, r) = o.value /\ regs'[r] = o.reg
        BY <2>2, <2>3, <3>2, VectorRead DEF VectorVal
      <4> HIDE DEF o
      <4>2. ReadOf(seen[r], Contents(o.value)) /\ Explained(r, o.reg, SeenRead(seen[r], Contents(o.value)))
        BY <3>1, <4>1, ReadExplained
      <4>3. Seen(seen[r], e, r) = SeenRead(seen[r], Contents(VectorVal(e, r)))
            /\ (Agrees(seen[r], e, r) <=> ReadOf(seen[r], Contents(VectorVal(e, r))))
        BY <2>3, <3>2 DEF Seen, Agrees
      <4> QED BY <4>1, <4>2, <4>3
    <3>3. CASE r \notin Range(VectorRegs)
      <4>1. Seen(seen[r], e, r) = seen[r] /\ Agrees(seen[r], e, r)
        BY <2>3, <3>3 DEF Seen, Agrees
      <4> QED BY <2>2, <3>1, <3>3, <4>1
    <3> QED BY <3>2, <3>3
  <2>5. regs' \in [Regs -> RegisterType]
    BY <2>2, <2>4 DEF Explained, RegisterOK
  <2> QED BY <2>2, <2>3, <2>4, <2>5, VectorStep
<1> QED BY <1>1, <1>2

LEMMA WriteVectorKeeps ==
  ASSUME MachineInv, NEW i \in DOMAIN VectorRegs, NEW symbolic \in BOOLEAN, NEW value \in Values,
         WriteVector(i, value, symbolic), seen' = Replay(events').known
  PROVE  StepKeeps
<1>1. CASE ~ symbolic
  <2> DEFINE loc == Whole(VectorRegs[i])
  <2>1. Done(Put(Start, loc, value), NoValue)
    BY <1>1 DEF WriteVector
  <2>2. loc \in Locations /\ loc.acc = <<>>
    <3>1. VectorRegs[i] \in Regs
      BY MachineAssumption
    <3> QED BY <3>1 DEF Whole, Locations
  <2>3. Put(Start, loc, value) \in Assign(Start, loc, value) /\ value \in ValuesAt(loc)
    BY <2>2 DEF Assign, ValuesAt
  <2> HIDE DEF loc
  <2> QED BY <2>1, <2>2, <2>3, WriteKeeps
<1>2. CASE symbolic
  <2> DEFINE Meant(outs, r) == IF VectorIndex(r) = i THEN value ELSE outs[VectorIndex(r)].value
  <2>1. PICK outs \in VectorReads :
          Done([regs |-> [r \in Regs |-> IF r \notin Range(VectorRegs) THEN regs[r]
                                         ELSE WriteOne(outs[VectorIndex(r)], Meant(outs, r))],
                evs |-> <<VectorEvent("WriteVector", i, outs, value)>>], NoValue)
    BY <1>2 DEF WriteVector, VectorEvent
  <2> DEFINE e == VectorEvent("WriteVector", i, outs, value)
  <2>2. events' = <<e>> /\ regs' = [r \in Regs |-> IF r \notin Range(VectorRegs) THEN regs[r]
                                                   ELSE WriteOne(outs[VectorIndex(r)], Meant(outs, r))]
    BY <2>1 DEF Done
  <2>3. e.ev = "WriteVector" /\ e.vals = Vals(outs) /\ e.index = i /\ e.val = value
    BY DEF VectorEvent
  <2> HIDE DEF e
  <2>4. ASSUME NEW r \in Regs PROVE Agrees(seen[r], e, r) /\ Explained(r, regs'[r], Seen(seen[r], e, r))
    <3>1. Explained(r, regs[r], seen[r])
      BY DEF MachineInv
    <3>2. CASE r \in Range(VectorRegs)
      <4> DEFINE o == outs[VectorIndex(r)]
                 w == Meant(outs, r)
                 k == SeenRead(seen[r], Contents(o.value))
      <4>1. o \in Read(regs[r]) /\ VectorVal(e, r) = o.value /\ o.value \in Values /\ regs'[r] = WriteOne(o, w)
        BY <2>2, <2>3, <3>2, VectorRead DEF VectorVal
      <4>2. w \in Values /\ w = IF VectorIndex(r) = e.index THEN e.val ELSE VectorVal(e, r)
        BY <2>3, <4>1
      <4> HIDE DEF o, w
      <4>3. ReadOf(seen[r], Contents(o.value)) /\ Explained(r, o.reg, k)
        BY <3>1, <4>1, ReadExplained
      <4>4. k.last # NoValue
        BY <4>1, ContentsType, NoValueIsNone DEF SeenRead
      <4>5. Symbolic(w) \in Values /\ Contents(Symbolic(w)) = Contents(w)
        BY <4>2, ContentsType
      <4>6. Explained(r, WriteOne(o, w), SeenWrite(k, Contents(w)))
        <5> HIDE DEF k
        <5> QED BY <4>3, <4>4, <4>5, WriteSeenExplained DEF WriteOne
      <4>7. Seen(seen[r], e, r) = SeenWrite(k, Contents(w))
        BY <2>3, <3>2, <4>1, <4>2 DEF Seen
      <4>8. Agrees(seen[r], e, r) <=> ReadOf(seen[r], Contents(VectorVal(e, r)))
        BY <2>3, <3>2 DEF Agrees
      <4> QED BY <4>1, <4>3, <4>6, <4>7, <4>8
    <3>3. CASE r \notin Range(VectorRegs)
      <4>1. Seen(seen[r], e, r) = seen[r] /\ Agrees(seen[r], e, r)
        BY <2>3, <3>3 DEF Seen, Agrees
      <4> QED BY <2>2, <3>1, <3>3, <4>1
    <3> QED BY <3>2, <3>3
  <2>5. regs' \in [Regs -> RegisterType]
    BY <2>2, <2>4 DEF Explained, RegisterOK
  <2> QED BY <2>2, <2>3, <2>4, <2>5, VectorStep
<1> QED BY <1>1, <1>2

(* A settled reset is what every read gives.                               *)
LEMMA SettledHolds ==
  ASSUME NEW rs, NEW reset, IsReset(reset), \A r \in Regs : RegisterOK(r, rs[r]), Settled(rs[reset.loc.reg], reset)
  PROVE  HoldsAt(rs, reset)
<1>1. RegisterOK(reset.loc.reg, rs[reset.loc.reg])
  BY DEF IsReset, Locations
<1>2. \A o \in Read(rs[reset.loc.reg]) : HoldsIn(o.value, reset)
  BY <1>1, SettledRead
<1> QED BY <1>2 DEF HoldsAt, HoldsIn

(* Every register is synchronized, which the reader of the trace is told.  *)
LEMMA SyncStep ==
  ASSUME NEW s, Good(seen, s), regs' = [r \in Regs |-> Synchronize(s.regs[r])], events' = s.evs,
         seen' = [r \in Regs |-> SeenSync(Replay(events').known[r])]
  PROVE  MachineInv' /\ Replay(events').ok
<1>1. /\ Replay(s.evs).ok /\ Replay(s.evs).known \in [Regs -> Knowledge] /\ s.regs \in [Regs -> RegisterType]
      /\ \A r \in Regs : Explained(r, s.regs[r], Replay(s.evs).known[r])
  BY GoodEnds
<1>2. \A r \in Regs : Explained(r, Synchronize(s.regs[r]), SeenSync(Replay(s.evs).known[r]))
  BY <1>1, SynchronizeExplained
<1>3. \A r \in Regs : Explained(r, regs'[r], seen'[r])
  BY <1>2
<1>4. regs' \in [Regs -> RegisterType] /\ seen' \in [Regs -> Knowledge]
  BY <1>3 DEF Explained, RegisterOK
<1> QED BY <1>1, <1>3, <1>4 DEF MachineInv

LEMMA SynchronizeKeeps ==
  ASSUME MachineInv, synchronize_registers,
         seen' = [r \in Regs |-> LET k == Replay(events').known[r] IN IF outcome'.st = "ok" THEN SeenSync(k) ELSE k]
  PROVE  StepKeeps
<1>1. Good(seen, Start) /\ Start.regs = regs /\ Start.evs = <<>>
  BY StartGood DEF Start
<1>2. regs' = [r \in Regs |-> Synchronize(Start.regs[r])] /\ events' = Start.evs /\ outcome'.st = "ok"
  BY <1>1 DEF synchronize_registers, Done, Start
<1>3. seen' = [r \in Regs |-> SeenSync(Replay(events').known[r])]
  BY <1>2
<1>4. RegistersReset
  BY <1>1, <1>2, NoneAssumed, NoReset
<1> QED BY <1>1, <1>2, <1>3, <1>4, SyncStep DEF StepKeeps

LEMMA ForgetKeeps ==
  ASSUME MachineInv, forget_last_reads,
         seen' = [r \in Regs |-> IF r \in Relaxed THEN SeenForget(seen[r]) ELSE seen[r]]
  PROVE  StepKeeps
<1>1. Good(seen, Start) /\ Start.regs = regs /\ Start.evs = <<>>
  BY StartGood DEF Start
<1>2. regs' = [r \in Regs |-> ForgetLastRead(regs[r])] /\ events' = <<>>
  BY <1>1 DEF forget_last_reads, Done, Start
<1>3. \A r \in Regs : Explained(r, regs[r], seen[r])
  BY DEF MachineInv
<1>4. \A r \in Regs : Explained(r, regs'[r], seen'[r])
  BY <1>2, <1>3, ForgetExplained
<1>5. regs' \in [Regs -> RegisterType] /\ seen' \in [Regs -> Knowledge]
  BY <1>2, <1>4 DEF Explained, RegisterOK
<1>6. RegistersReset
  BY <1>2, NoneAssumed, NoReset
<1>7. Replay(events').ok
  BY <1>1, <1>2, GoodEnds
<1> QED BY <1>4, <1>5, <1>6, <1>7 DEF StepKeeps, MachineInv

(* The resets that reset_registers promises.                               *)
Due == {reset \in TaskResets : Alone(reset, TaskResets)}
         \cup {reset \in SharedResets : Alone(reset, NotReplaced) /\ Alone(reset, TaskResets)}

LEMMA ResetRegistersKeeps ==
  ASSUME MachineInv, reset_registers,
         seen' = [r \in Regs |-> LET k == Replay(events').known[r] IN IF outcome'.st = "ok" THEN SeenSync(k) ELSE k]
  PROVE  StepKeeps
<1>1. Good(seen, Start) /\ Start.regs = regs /\ Start.evs = <<>>
  BY StartGood DEF Start
<1>2. PICK a \in ResetLookups :
        \/ Failed("InconsistentRegisterReset")
        \/ \E b \in AssumptionLookups(a.s) :
             Done([b.s EXCEPT !.regs = [r \in Regs |-> Synchronize(b.s.regs[r])]], NoValue)
  BY DEF reset_registers
<1>3. CASE Failed("InconsistentRegisterReset")
  <2>1. regs' = regs /\ events' = <<>> /\ outcome'.st = "InconsistentRegisterReset"
    BY <1>3 DEF Failed
  <2>2. Replay(<<>>).known \in [Regs -> Knowledge]
    BY <1>1, GoodEnds
  <2>3. seen' = Replay(events').known
    BY <2>1, <2>2
  <2> QED BY <2>1, <2>3, NothingKeeps
<1>4. CASE \E b \in AssumptionLookups(a.s) :
             Done([b.s EXCEPT !.regs = [r \in Regs |-> Synchronize(b.s.regs[r])]], NoValue)
  <2> DEFINE clocs == [i \in DOMAIN ResetConstraints |-> ResetConstraints[i].loc]
             alocs == [i \in DOMAIN FunctionAssumptions |-> FunctionAssumptions[i].arg]
  <2>1. PICK b \in AssumptionLookups(a.s) :
          Done([b.s EXCEPT !.regs = [r \in Regs |-> Synchronize(b.s.regs[r])]], NoValue)
    BY <1>4
  <2>2. clocs \in Seq(Locations)
    <3>1. ResetConstraints \in Seq(Range(ResetConstraints)) /\ \A i \in DOMAIN ResetConstraints : ResetConstraints[i].loc \in Locations
      BY MachineAssumption
    <3>2. PICK n \in Nat : DOMAIN ResetConstraints = 1..n
      BY <3>1
    <3> QED BY <3>1, <3>2
  <2>3. alocs \in Seq(Locations)
    <3>1. /\ FunctionAssumptions \in Seq(Range(FunctionAssumptions))
          /\ \A i \in DOMAIN FunctionAssumptions : FunctionAssumptions[i].arg \in Locations
      BY MachineAssumption
    <3>2. PICK n \in Nat : DOMAIN FunctionAssumptions = 1..n
      BY <3>1
    <3> QED BY <3>1, <3>2
  <2>4. \A p \in Due : IsReset(p)
    BY MachineAssumption DEF Due
  <2>5. \A s \in Reset({Start}) : Good(seen, s) /\ \A p \in Due : SettledIn(s, p)
    BY <1>1, ResetPromises DEF Promised, Due
  <2>6. a \in Lookups(Reset({Start}), clocs)
    BY <1>2 DEF ResetLookups
  <2> HIDE DEF clocs
  <2>7. Good(seen, a.s) /\ \A p \in Due : SettledIn(a.s, p)
    BY <2>2, <2>4, <2>5, <2>6, LookupsKeep
  <2> DEFINE from == {a.s}
  <2>8. b \in Lookups(from, alocs) /\ \A s \in from : Good(seen, s) /\ \A p \in Due : SettledIn(s, p)
    BY <2>1, <2>7 DEF AssumptionLookups
  <2> HIDE DEF alocs, from
  <2>9. Good(seen, b.s) /\ \A p \in Due : SettledIn(b.s, p)
    BY <2>3, <2>4, <2>8, LookupsKeep
  <2> DEFINE rs == [r \in Regs |-> Synchronize(b.s.regs[r])]
             end == [b.s EXCEPT !.regs = rs]
  <2>10. b.s \in States /\ \A r \in Regs : RegisterOK(r, b.s.regs[r])
    BY <2>9 DEF Good, Explained
  <2>11. end.regs = rs /\ end.evs = b.s.evs
    <3> HIDE DEF rs
    <3> QED BY <2>10 DEF States
  <2>12. regs' = rs /\ events' = b.s.evs /\ outcome'.st = "ok" /\ outcome'.value = NoValue
    BY <2>1, <2>11 DEF Done
  <2>13. seen' = [r \in Regs |-> SeenSync(Replay(events').known[r])]
    BY <2>12
  <2>14. MachineInv' /\ Replay(events').ok
    BY <2>9, <2>12, <2>13, SyncStep
  <2>15. \A p \in Due : HoldsAt(regs', p)
    <3> SUFFICES ASSUME NEW p \in Due PROVE HoldsAt(regs', p)
      OBVIOUS
    <3>1. p.loc.reg \in Regs /\ IsReset(p)
      BY <2>4 DEF IsReset, Locations
    <3>2. Settled(Synchronize(b.s.regs[p.loc.reg]), p)
      BY <2>9, <2>10, <3>1, SettledSynchronize DEF SettledIn
    <3>3. Settled(regs'[p.loc.reg], p)
      BY <2>12, <3>1, <3>2
    <3>4. \A r \in Regs : RegisterOK(r, regs'[r])
      BY <2>14 DEF MachineInv, Explained
    <3> HIDE DEF rs, end
    <3> QED BY <3>1, <3>3, <3>4, SettledHolds
  <2>16. RegistersReset
    BY <2>12, <2>15 DEF RegistersReset, Due
  <2> QED BY <2>14, <2>16 DEF StepKeeps
<1> QED BY <1>2, <1>3, <1>4

(* An interrupt that is taken was not taken before.                        *)
LEMMA InterruptKeeps ==
  ASSUME MachineInv, interrupt_pending, seen' = Replay(events').known
  PROVE  StepKeeps /\ InterruptReset
<1>1. Good(seen, Start) /\ Start.regs = regs /\ Start.evs = <<>>
  BY StartGood DEF Start
<1>2. PICK a \in ScanTriggers :
        \/ Failed("BadInterrupt")
        \/ Done(a.s, Flag(FALSE)) /\ taken' = taken
        \/ /\ a.k # 0 /\ ~ IsTaken(a.k) /\ taken' = taken \cup {Interrupts[a.k].id}
           /\ \E order \in Orders(Interrupts[a.k].resets) : \E s \in Plain!fold({a.s}, order) : Done(s, Flag(TRUE))
  BY DEF interrupt_pending
<1>3. Good(seen, a.s) /\ a.s.evs = <<>> /\ a.k \in {0} \cup DOMAIN Interrupts
  BY <1>1, <1>2, ScanGood DEF ScanTriggers
<1>4. CASE Failed("BadInterrupt")
  BY <1>4, NothingKeeps DEF Failed, InterruptReset, Injected
<1>5. CASE Done(a.s, Flag(FALSE)) /\ taken' = taken
  <2>1. regs' = a.s.regs /\ events' = a.s.evs
    BY <1>5 DEF Done
  <2>2. RegistersReset /\ InterruptReset
    BY <1>3, <1>5, <2>1, NoneAssumed, NoReset DEF InterruptReset, Injected
  <2> QED BY <1>3, <2>1, <2>2, GoodStep
<1>6. CASE /\ a.k # 0 /\ ~ IsTaken(a.k) /\ taken' = taken \cup {Interrupts[a.k].id}
           /\ \E order \in Orders(Interrupts[a.k].resets) : \E s \in Plain!fold({a.s}, order) : Done(s, Flag(TRUE))
  <2> DEFINE from == {a.s}
             rs == Interrupts[a.k].resets
             none == {}
  <2>1. PICK order \in Orders(rs) : \E s \in Plain!fold(from, order) : Done(s, Flag(TRUE))
    BY <1>6
  <2>2. PICK s \in Plain!fold(from, order) : Done(s, Flag(TRUE))
    BY <2>1
  <2>3. a.k \in DOMAIN Interrupts
    BY <1>3, <1>6
  <2>4. IsFiniteSet(rs) /\ \A x \in rs : IsReset(x)
    BY <2>3, MachineAssumption
  <2>5. /\ \A x \in from : Good(seen, x) /\ \A p \in none : SettledIn(x, p)
        /\ \A p \in none : IsReset(p)
    BY <1>3
  <2>6. \A k \in DOMAIN Interrupts : Injected(k) => k = a.k
    BY <1>6, <2>3, MachineAssumption DEF Injected
  <2>7. taken' # taken
    BY <1>6 DEF IsTaken
  <2> HIDE DEF from, none, rs
  <2>8. order \in Seq(rs)
    BY <2>4, OrderIsComplete
  <2>9. SequenceDone(seen, none, order, s)
    BY <2>2, <2>4, <2>5, <2>8, PlainResets
  <2>10. Good(seen, s) /\ \A reset \in rs : Alone(reset, rs) => SettledIn(s, reset)
    BY <2>4, <2>9, OrderSettles
  <2>11. regs' = s.regs /\ events' = s.evs
    BY <2>2 DEF Done
  <2>12. \A r \in Regs : RegisterOK(r, s.regs[r])
    BY <2>10 DEF Good, Explained
  <2>13. ASSUME NEW reset \in rs, Alone(reset, rs) PROVE HoldsAt(regs', reset)
    BY <2>4, <2>10, <2>11, <2>12, <2>13, SettledHolds DEF SettledIn
  <2>14. InterruptReset
    BY <2>6, <2>13 DEF InterruptReset, rs
  <2>15. RegistersReset
    BY <2>7 DEF RegistersReset, ResetsApplied
  <2> QED BY <2>10, <2>11, <2>14, <2>15, GoodStep
<1> QED BY <1>2, <1>4, <1>5, <1>6

(* The program counter is read without an event.                           *)
LEMMA AnnounceKeeps ==
  ASSUME MachineInv, NEW opcode, instr_announce(opcode), seen' = Replay(events').known
  PROVE  StepKeeps
<1>1. PICK o \in Read(regs[PcReg]) : Announce(o, opcode)
  BY DEF instr_announce
<1>2. CASE \E error : Failed(error)
  BY <1>2, NothingKeeps DEF Failed
<1>3. CASE /\ regs' = [regs EXCEPT ![PcReg] = o.reg]
           /\ events' = IF opcode = 0 THEN <<>> ELSE <<[ev |-> "Instr", val |-> opcode]>>
  <2>1. PcReg \in Regs /\ PcReg \in Silent
    BY MachineAssumption DEF Silent
  <2>2. Explained(PcReg, o.reg, seen[PcReg])
    BY <1>1, <2>1, ReadExplained DEF MachineInv
  <2>3. regs' \in [Regs -> RegisterType] /\ \A r \in Regs : Explained(r, regs'[r], seen[r])
    BY <1>3, <2>1, <2>2 DEF MachineInv, Explained, RegisterOK
  <2>4. CASE opcode = 0
    <3>1. events' = <<>>
      BY <1>3, <2>4
    <3>2. seen' = seen /\ Replay(events').ok
      BY <3>1, Trace!FoldEmpty DEF Replay
    <3>3. RegistersReset
      BY <3>1, NoneAssumed, NoReset
    <3> QED BY <2>3, <3>2, <3>3 DEF StepKeeps, MachineInv
  <2>5. CASE opcode # 0
    <3> DEFINE e == [ev |-> "Instr", val |-> opcode]
    <3>1. events' = <<e>> /\ e.ev = "Instr"
      BY <1>3, <2>5
    <3> HIDE DEF e
    <3>2. \A r \in Regs : Seen(seen[r], e, r) = seen[r] /\ Agrees(seen[r], e, r)
      BY <3>1 DEF Seen, Agrees
    <3> QED BY <2>3, <3>1, <3>2, VectorStep
  <2> QED BY <2>4, <2>5
<1> QED BY <1>1, <1>2, <1>3 DEF Announce

-----------------------------------------------------------------------------
(* Every step.                                                             *)

LEMMA OperationKeeps ==
  ASSUME MachineInv, Operation, seen' = Replay(events').known
  PROVE  StepKeeps
<1>1. ASSUME NEW loc \in Locations, ReadLoc(loc) PROVE StepKeeps
  BY <1>1, ReadKeeps DEF ReadLoc
<1>2. ASSUME NEW loc \in Locations, NEW v \in ValuesAt(loc), WriteLoc(loc, v) PROVE StepKeeps
  BY <1>2, WriteKeeps DEF WriteLoc
<1>3. \A r \in Regs : Whole(r) \in Locations /\ ValuesAt(Whole(r)) = Values
  BY DEF Whole, Locations, ValuesAt
<1>4. CASE \E loc \in Locs : ReadLoc(loc)
  BY <1>1, <1>4, MachineAssumption
<1>5. CASE \E r \in Regs : RegDeref(r)
  BY <1>1, <1>3, <1>5 DEF RegDeref
<1>6. CASE \E r \in Regs, v \in Written : WriteLoc(Whole(r), v)
  BY <1>2, <1>3, <1>6, MachineAssumption
<1>7. CASE \E loc \in Locs, v \in FieldsWritten : loc.acc # <<>> /\ WriteLoc(loc, v)
  BY <1>2, <1>7, MachineAssumption DEF ValuesAt
<1>8. CASE \E i \in DOMAIN VectorRegs, b \in BOOLEAN : ReadVector(i, b)
  BY <1>8, ReadVectorKeeps
<1>9. CASE \E i \in DOMAIN VectorRegs, b \in BOOLEAN, v \in Written : WriteVector(i, v, b)
  BY <1>9, WriteVectorKeeps, MachineAssumption
<1>10. CASE \E b \in Bits : call_assumed([v |-> b, sym |-> FALSE])
  <2>1. regs' = regs /\ events' = <<>>
    BY <1>10 DEF call_assumed, Done, Start
  <2> QED BY <2>1, NothingKeeps
<1>11. CASE interrupt_pending
  BY <1>11, InterruptKeeps
<1>12. CASE \E opcode \in 0 .. 1 : instr_announce(opcode)
  BY <1>12, AnnounceKeeps
<1> QED BY <1>4, <1>5, <1>6, <1>7, <1>8, <1>9, <1>10, <1>11, <1>12 DEF Operation

LEMMA NextKeeps == MachineInv /\ MachineNext => StepKeeps
<1> SUFFICES ASSUME MachineInv, MachineNext PROVE StepKeeps
  OBVIOUS
<1>1. CASE Operation /\ seen' = Replay(events').known
  BY <1>1, OperationKeeps
<1>2. CASE /\ reset_registers \/ synchronize_registers
           /\ seen' = [r \in Regs |-> LET k == Replay(events').known[r]
                                      IN IF outcome'.st = "ok" THEN SeenSync(k) ELSE k]
  BY <1>2, ResetRegistersKeeps, SynchronizeKeeps
<1>3. CASE forget_last_reads /\ seen' = [r \in Regs |-> IF r \in Relaxed THEN SeenForget(seen[r]) ELSE seen[r]]
  BY <1>3, ForgetKeeps
<1> QED BY <1>1, <1>2, <1>3 DEF MachineNext

(* Only an injected interrupt is taken.                                    *)
LEMMA InterruptsReset == MachineInv /\ MachineNext => InterruptReset
<1> SUFFICES ASSUME MachineInv, MachineNext PROVE InterruptReset
  OBVIOUS
<1>1. CASE taken' = taken
  BY <1>1 DEF InterruptReset, Injected
<1>2. CASE interrupt_pending /\ seen' = Replay(events').known
  BY <1>2, InterruptKeeps
<1>3. ASSUME Operation, ~ interrupt_pending PROVE taken' = taken
  BY <1>3 DEF Operation, ReadLoc, RegDeref, WriteLoc, ReadVector, WriteVector, call_assumed, instr_announce, Announce, Failed
<1>4. reset_registers \/ synchronize_registers \/ forget_last_reads => taken' = taken
  BY DEF reset_registers, synchronize_registers, forget_last_reads, Failed
<1> QED BY <1>1, <1>2, <1>3, <1>4 DEF MachineNext

LEMMA InitExplained == MachineInit => MachineInv
<1> SUFFICES ASSUME MachineInit PROVE MachineInv
  OBVIOUS
<1>1. ASSUME NEW r \in Regs
      PROVE  /\ UninitRegister(r \in Relaxed) \in RegisterType /\ Unseen \in Knowledge
             /\ Explained(r, UninitRegister(r \in Relaxed), Unseen)
  <2>1. UninitRegister(r \in Relaxed) \in RegisterType /\ Unseen \in Knowledge
    BY DEF UninitRegister, RegisterType, Unseen, Knowledge
  <2>2. RegisterOK(r, UninitRegister(r \in Relaxed)) /\ FitsUnseen(r, UninitRegister(r \in Relaxed))
    BY <2>1 DEF RegisterOK, FitsUnseen, UninitRegister, IsInit
  <2>3. Unseen.last = NoValue
    BY DEF Unseen
  <2> QED BY <2>1, <2>2, <2>3 DEF Explained
<1> QED BY <1>1 DEF MachineInit, MachineInv

LEMMA InvStep == MachineInv /\ [MachineNext]_machineVars => MachineInv'
<1>1. MachineInv /\ MachineNext => MachineInv'
  BY NextKeeps DEF StepKeeps
<1>2. MachineInv /\ UNCHANGED machineVars => MachineInv'
  BY DEF machineVars, MachineInv
<1> QED BY <1>1, <1>2

(* The register holds what the trace says of it.                           *)
LEMMA ExplainedHolds == MachineInv => RegistersHoldWrites
<1> SUFFICES ASSUME MachineInv, NEW r \in Regs, seen[r].last # NoValue
             PROVE  /\ Contents(regs[r].last_write) = seen[r].last
                    /\ \A o \in Read(regs[r]) :
                         /\ Contents(o.value) \in seen[r].window
                         /\ r \notin Relaxed => Contents(o.value) = seen[r].last
                         /\ seen[r].now # NoValue => Contents(o.value) = seen[r].now
  BY DEF RegistersHoldWrites
<1> DEFINE g == regs[r]
           k == seen[r]
<1>1. Explained(r, g, k) /\ RegisterOK(r, g) /\ FitsSeen(g, k)
  BY DEF MachineInv, Explained
<1> HIDE DEF g, k
<1>2. Contents(g.last_write) = k.last
  BY <1>1 DEF FitsSeen
<1>3. ASSUME NEW o \in Read(g)
      PROVE  /\ Contents(o.value) \in k.window /\ (r \notin Relaxed => Contents(o.value) = k.last)
             /\ k.now # NoValue => Contents(o.value) = k.now
  <2>1. /\ IsInit(g) /\ g.last_read # NoValue => o.value = g.last_read
        /\ IsInit(g) /\ g.last_read = NoValue =>
             \E w \in {g.last_write} \cup g.old_writes :
               Contents(o.value) = Contents(w) /\ (g.old_writes = {} => o.value = w)
    BY <1>1, ReadOutcome
  <2> QED BY <1>1, <2>1 DEF FitsSeen, RegisterOK
<1> QED BY <1>2, <1>3 DEF g, k

\* Every step keeps the registers explained.
LEMMA MachineInductive == MachineSpec => []MachineInv
<1>1. MachineInit => MachineInv
  BY InitExplained
<1>2. MachineInv /\ [MachineNext]_machineVars => MachineInv'
  BY InvStep
<1> QED BY <1>1, <1>2, PTL DEF MachineSpec

\* Whatever the registers, their fields and values, the vector, the resets and
\* the interrupts: a register holds the last write the trace tells of, and a
\* relaxed one returns nothing from before its last synchronization
\* (register.rs:33-75).
THEOREM MachineHoldsWrites == MachineSpec => []RegistersHoldWrites
BY MachineInductive, ExplainedHolds, PTL

\* In whatever order the hash maps of resets are iterated, a reset that no other
\* overlaps is what every later read returns, the task's before the shared ones;
\* and so are the resets of an interrupt when it is taken (executor.rs:634-738).
THEOREM MachineResetsHold == MachineSpec => ResetsHold
<1>1. MachineInv /\ [MachineNext]_machineVars => [RegistersReset /\ InterruptReset]_machineVars
  BY NextKeeps, InterruptsReset DEF StepKeeps
<1> QED BY <1>1, MachineInductive, PTL DEF MachineSpec, ResetsHold

\* The events of every operation agree with those before them: who replays the
\* trace finds every value that was read or assumed (executor.rs:78-354).
THEOREM MachineTraceExplains == MachineSpec => TraceExplainsReads
<1>1. MachineInv /\ [MachineNext]_machineVars => [Replay(events').ok]_machineVars
  BY NextKeeps DEF StepKeeps
<1> QED BY <1>1, MachineInductive, PTL DEF MachineSpec, TraceExplainsReads

=============================================================================

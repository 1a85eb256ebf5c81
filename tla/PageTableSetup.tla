---------------------------- MODULE PageTableSetup ----------------------------
(***************************************************************************)
(* Building translation tables from the page_table_setup of a litmus test  *)
(* (isla-axiomatic/src/page_table/setup.rs).  The addresses are chosen     *)
(* first, then the constraints are evaluated one after the other; the      *)
(* module takes any of them at each step, so a behaviour is the evaluation *)
(* of one setup.  A nested table command is its opening and its closing.   *)
(*                                                                         *)
(* A TVal is a record [k, v]: the kind of address, and its bits.           *)
(***************************************************************************)
EXTENDS PageTable, SequencesExt

CONSTANTS
  Decls,           \* the address declarations: [kind, align, names]
  Holds(_),        \* the assertions on the chosen addresses
  AddrBase, AddrTop,
  S1Base, S2Base,  \* page_table_base and s2_page_table_base
  CodePages,       \* the page of each thread's code
  Nestings,        \* the table commands: [stage, name, addr]
  Constraints,     \* the mapping commands, see Evaluate
  InitialValues,   \* the *x = v commands: [addr, val]
  MaxCommands      \* bound on the commands of a setup

VARIABLES
  options,      \* SetupOptions
  vars,         \* Ctx::vars: TVals by name
  all_tables,   \* [pt, stage] by table id; the level 0 table has index 1
  current,      \* current_s1_tables and current_s2_tables, or None
  parents,      \* s1_parents and s2_parents
  named_tables,
  maybe_mapped,
  initials,
  scopes,       \* the table commands that are open: [stage, id, is_new]
  status,       \* "running", "done" or "failed"
  physical,     \* physical_addrs, once done
  last          \* the updates of the last command (history)

setupVars == <<options, vars, all_tables, current, parents, named_tables, maybe_mapped, initials,
               scopes, status, physical, last>>

None == 0

S1 == 1
S2 == 2

S1DefaultName == "s1_default"
S2DefaultName == "s2_default"

(***************************************************************************)
(* Addresses and expressions.                                              *)
(***************************************************************************)
VA(v)  == [k |-> "VA",  v |-> from_u64(v)]
IPA(v) == [k |-> "IPA", v |-> from_u64(v)]
PA(v)  == [k |-> "PA",  v |-> v]
TPA(v) == [k |-> "TPA", v |-> v]

is_address(t) == t.k \in {"VA", "IPA", "PA", "TPA"}

DeclNames == UNION {Decls[i].names : i \in DOMAIN Decls}

DeclOf(name) == Decls[CHOOSE i \in DOMAIN Decls : name \in Decls[i].names]

\* eval_address_constraints: what the solver may answer.
AddressModels ==
  {a \in [DeclNames -> {v \in AddrBase .. AddrTop - 1 : \E i \in DOMAIN Decls : v % Decls[i].align = 0}] :
     /\ \A n \in DeclNames : a[n] % DeclOf(n).align = 0
     /\ \A i \in DOMAIN Decls : \A m, n \in Decls[i].names : m # n => a[m] # a[n]
     /\ Holds(a)}

ToTVal(kind, v) == CASE kind = "VA" -> VA(v) [] kind = "IPA" -> IPA(v) [] kind = "PA" -> PA(v)

Conversions ==
  [va_to_pa |-> <<"VA", "PA">>, pa_to_va |-> <<"PA", "VA">>, va_to_ipa |-> <<"VA", "IPA">>,
   ipa_to_va |-> <<"IPA", "VA">>, pa_to_ipa |-> <<"PA", "IPA">>, ipa_to_pa |-> <<"IPA", "PA">>]

BadType == [k |-> "error"]

\* The walk that tableN and pteN read: stage 1 before stage 2.
FirstStage(w) == IF w.stage1 # <<>> THEN w.stage1[1] ELSE w.stage2[1]

WalkFunctions == {"table", "pte", "s2table", "s2pte"}

ApplyWalk(f, level, w) ==
  CASE f = "table"   -> PA(FirstStage(w).tables[level])
    [] f = "pte"     -> PA(FirstStage(w).ptes[level + 1])
    [] f = "s2table" -> IF w.stage2 = <<>> THEN BadType ELSE PA(w.stage2[1].tables[level])
    [] f = "s2pte"   -> IF w.stage2 = <<>> THEN BadType ELSE PA(w.stage2[1].ptes[level + 1])

\* primop_table and primop_desc: an address as that of a table, or as a raw
\* descriptor (the addresses here have no bits in the place of its flags).
AsTable(t) == IF t.k \in {"error", "Walk", "Raw"} THEN BadType ELSE TPA(t.v)

AsRaw(t) ==
  IF t.k \in {"error", "Walk", "Raw"} THEN BadType
  ELSE [k |-> "Raw", v |-> [out |-> Aligned(t.v, PageSize), bits |-> {}]]

\* An expression is [f, arg, level, as]: f is "id", a conversion, or a function
\* of a walk, applied to a variable; as says what the result is wrapped in.
eval(e) ==
  LET App(t) ==
        CASE t.k = "error" -> BadType
          [] t.k # "error" /\ e.f = "id" -> t
          [] t.k # "error" /\ e.f \in DOMAIN Conversions ->
               IF t.k = Conversions[e.f][1] THEN ToTVal(Conversions[e.f][2], t.v) ELSE BadType
          [] t.k # "error" /\ e.f \in WalkFunctions ->
               IF t.k = "Walk" THEN ApplyWalk(e.f, e.level, t.v) ELSE BadType
      Wrap(t) == CASE e.as = "" -> t [] e.as = "table" -> AsTable(t) [] e.as = "raw" -> AsRaw(t)
  IN Wrap(App(IF e.arg \in DOMAIN vars THEN vars[e.arg] ELSE BadType))

(***************************************************************************)
(* Attributes: a kind, with the fields [field, value] to change.           *)
(***************************************************************************)
StageFields(stage) == IF stage = S1 THEN S1_PAGE_ATTR_FIELDS ELSE S2_PAGE_ATTR_FIELDS

StageDefault(stage) == IF stage = S1 THEN S1Default ELSE S2Default

StageCode(stage) == IF stage = S1 THEN S1Code ELSE S2Code

HasFields(attrs, stage) ==
  attrs.kind = "code"
  \/ \A f \in attrs.fields : CanSetField(StageFields(stage), f.field, f.len)

StageAttrs(attrs, stage) ==
  IF attrs.kind = "code" THEN StageCode(stage)
  ELSE FoldSet(LAMBDA f, acc : set_field(acc, StageFields(stage), f.field, f.v),
               StageDefault(stage),
               {f \in attrs.fields : CanSetField(StageFields(stage), f.field, f.len)})

(***************************************************************************)
(* The mapping commands.  A command asks for a sequence of updates         *)
(* [stage, va, target]: one, or one in each stage.                         *)
(***************************************************************************)
have(stage) == current[stage] # None

Identity(stage, page, attrs, level) ==
  [stage |-> stage, va |-> from_u64(page), target |-> MapTarget(page, FALSE, attrs[stage], level)]

AlsoStage2(page, attrs, level) == IF have(S2) THEN <<Identity(S2, page, attrs, level)>> ELSE <<>>

IdentityUpdates(t, attrs, level) ==
  CASE t.k = "VA"  -> <<Identity(S1, t.v, attrs, level)>>
    [] t.k = "IPA" -> <<Identity(S2, t.v, attrs, level)>>
    [] t.k = "PA"  -> <<Identity(S1, t.v, attrs, level)>> \o AlsoStage2(t.v, attrs, level)
    [] OTHER -> <<>>

FromStage(from) == IF from.k = "VA" THEN S1 ELSE S2

\* maps_to and _maybe_maps_to differ in the target only.
ToTarget(maybe, to, attrs, level) ==
  LET Page(is_table) ==
        IF maybe THEN MaybeMapTarget(to.v, is_table, attrs, level)
        ELSE MapTarget(to.v, is_table, attrs, level)
  IN CASE to.k \in {"PA", "IPA"} -> Page(FALSE)
       [] to.k = "TPA" -> Page(TRUE)
       [] to.k = "Invalid" -> IF maybe THEN RawTarget(InvalidBits) ELSE InvalidTarget
       [] to.k = "Raw" -> RawTarget(to.v)

Typed(maybe, from, to) ==
  \/ from.k = "VA" /\ to.k \in {"PA", "IPA", "TPA", "Invalid"}
  \/ from.k = "IPA" /\ to.k \in {"PA", "TPA", "Invalid"}
  \/ maybe /\ from.k \in {"VA", "IPA"} /\ to.k = "Raw"

MapsToUpdates(maybe, from, to, attrs, level) ==
  IF ~ Typed(maybe, from, to) THEN <<>>
  ELSE <<[stage |-> FromStage(from), va |-> from.v,
          target |-> ToTarget(maybe, to, attrs[FromStage(from)], level)]>>
       \o (IF from.k = "VA" /\ to.k = "PA" THEN AlsoStage2(to.v, attrs, level) ELSE <<>>)

\* The tables, the recorded walks and the outcome after an update.
RunUpdate(acc, u, level) ==
  LET Into(w) == [all   |-> [acc.all EXCEPT ![current[u.stage]].pt = w.pt],
                  walks |-> Append(acc.walks, [stage |-> u.stage, tables |-> w.tables, ptes |-> w.ptes]),
                  st    |-> w.st]
  IN IF have(u.stage) THEN Into(update(acc.all[current[u.stage]].pt, 1, u.va, u.target, level))
     ELSE [acc EXCEPT !.st = "no tables"]

RunUpdates(us, level) ==
  FoldLeft(LAMBDA acc, u : IF acc.st # "ok" THEN acc ELSE RunUpdate(acc, u, level),
           [all |-> all_tables, walks |-> <<>>, st |-> IF us = <<>> THEN "type" ELSE "ok"], us)

WalkInfo(walks) ==
  [stage1 |-> SelectSeq(walks, LAMBDA w : w.stage = S1), stage2 |-> SelectSeq(walks, LAMBDA w : w.stage = S2)]

Updates(c) ==
  LET attrs == [s \in {S1, S2} |-> StageAttrs(c.attrs[s], s)]
      Typing(from, to) ==
        IF from.k = "error" \/ to.k = "error" THEN <<>>
        ELSE IF c.cmd = "identity" THEN IdentityUpdates(from, attrs, c.level)
        ELSE MapsToUpdates(c.cmd = "maybe", from, to, attrs, c.level)
  IN Typing(eval(c.from), IF c.cmd = "identity" THEN VA(0) ELSE eval(c.to))

Fail ==
  /\ status' = "failed"
  /\ UNCHANGED <<options, vars, all_tables, current, parents, named_tables, maybe_mapped, initials,
                 scopes, physical, last>>

\* A table descriptor, a raw one, or a block over tables makes walks share tables.
Aliases(u, level) ==
  \/ u.target.bits.bits = {0, 1}
  \/ u.target.bits.bits = {} /\ u.target.bits.out # 0
  \/ level < 3 /\ u.target.bits.bits # {}
     /\ \E id \in DOMAIN all_tables, a \in Aligned(u.target.bits.out, PageSize) .. u.target.bits.out + Span(level) - 1 :
          a \in TablesRange(all_tables[id].pt)

RunCommand(c, us, r) ==
  IF r.st = "ok" /\ \A i \in DOMAIN us : HasFields(c.attrs[us[i].stage], us[i].stage)
  THEN /\ all_tables' = r.all
       /\ vars' = IF c.as = "" THEN vars
                  ELSE [n \in DOMAIN vars \cup {c.as} |->
                          IF n = c.as THEN [k |-> "Walk", v |-> WalkInfo(r.walks)] ELSE vars[n]]
       /\ maybe_mapped' = IF c.cmd # "maybe" THEN maybe_mapped
                          ELSE maybe_mapped \cup {r.walks[i].ptes[c.level + 1] : i \in DOMAIN r.walks}
       /\ last' = [us |-> [i \in DOMAIN us |-> [id |-> current[us[i].stage], va |-> us[i].va,
                                                 target |-> us[i].target, ptes |-> r.walks[i].ptes]],
                   level |-> c.level, n |-> last.n + 1,
                   aliased |-> last.aliased \/ \E i \in DOMAIN us : Aliases(us[i], c.level)]
       /\ UNCHANGED <<options, current, parents, named_tables, initials, scopes, status, physical>>
  ELSE Fail

(***************************************************************************)
(* Mapping code and tables into tables.                                    *)
(***************************************************************************)
NoUpdates == [last EXCEPT !.us = <<>>, !.n = @ + 1]

\* Another command may follow.
CanCommand == status = "running" /\ last.n < MaxCommands

IdentityMapPage(pt, page, attrs) == update(pt, 1, from_u64(page), MapTarget(page, FALSE, attrs, 3), 3)

\* The tables after identity maps of pages at level 3; the first failure stays.
MapAll(w, pages, attrs) ==
  FoldLeft(LAMBDA acc, page : IF acc.st # "ok" THEN acc ELSE IdentityMapPage(acc.pt, page, attrs), w, pages)

Ready(pt) == [pt |-> pt, st |-> "ok"]

\* As map_code, at the attributes of data.
map_code_as_data(t) == MapAll(Ready(t.pt), CodePages, StageDefault(t.stage))

map_code(t) == MapAll(Ready(t.pt), CodePages, StageCode(t.stage))

PagesOf(pt) == [i \in 1 .. Len(pt.tables) |-> table_address(pt, i)]

\* Mapping tables into themselves follows the tables it allocates.
RECURSIVE SelfMap(_, _, _)
SelfMap(w, i, attrs) ==
  IF w.st # "ok" \/ i > Len(w.pt.tables) THEN w
  ELSE SelfMap(IdentityMapPage(w.pt, table_address(w.pt, i), attrs), i + 1, attrs)

map_tables(all, src, dest) ==
  IF src = dest THEN SelfMap(Ready(all[dest].pt), 1, StageDefault(all[dest].stage))
  ELSE MapAll(Ready(all[dest].pt), PagesOf(all[src].pt), StageDefault(all[dest].stage))

\* Steps of several tables: [all, st], stopping at the first failure.
IntoTables(acc, dest, w) ==
  IF w.st # "ok" THEN [acc EXCEPT !.st = w.st] ELSE [acc EXCEPT !.all[dest].pt = w.pt]

MapTablesInto(acc, src, dests) ==
  FoldLeft(LAMBDA a, dest : IF a.st # "ok" THEN a ELSE IntoTables(a, dest, map_tables(a.all, src, dest)),
           acc, dests)

MapCodeInto(acc, ids) ==
  FoldLeft(LAMBDA a, id : IF a.st # "ok" THEN a ELSE IntoTables(a, id, map_code(a.all[id])), acc, ids)

(***************************************************************************)
(* Nested tables.                                                          *)
(***************************************************************************)
PushCurrent(stage, id) ==
  /\ parents' = IF have(stage) THEN [parents EXCEPT ![stage] = Append(@, current[stage])] ELSE parents
  /\ current' = [current EXCEPT ![stage] = id]

OpenExisting(n) ==
  /\ n.name \in DOMAIN named_tables
  /\ n.addr = None
  /\ PushCurrent(n.stage, named_tables[n.name])
  /\ scopes' = Append(scopes, [stage |-> n.stage, id |-> named_tables[n.name], is_new |-> FALSE])
  /\ UNCHANGED <<vars, all_tables, named_tables>>

OpenNew(n) ==
  LET id == Len(all_tables) + 1
  IN /\ n.name \notin DOMAIN named_tables
     /\ n.addr # None
     /\ vars' = [m \in DOMAIN vars \cup {n.name} |-> IF m = n.name THEN TPA(n.addr) ELSE vars[m]]
     /\ all_tables' = Append(all_tables, [pt |-> alloc(NewTables(n.addr)), stage |-> n.stage])
     /\ named_tables' = [m \in DOMAIN named_tables \cup {n.name} |-> IF m = n.name THEN id ELSE named_tables[m]]
     /\ PushCurrent(n.stage, id)
     /\ scopes' = Append(scopes, [stage |-> n.stage, id |-> id, is_new |-> TRUE])

\* DuplicateTables, or MissingTableAddress.
BadTables(n) == (n.name \in DOMAIN named_tables) = (n.addr # None)

OpenNested(n) ==
  /\ CanCommand
  /\ \/ /\ OpenExisting(n) \/ OpenNew(n)
        /\ last' = NoUpdates
        /\ UNCHANGED <<options, maybe_mapped, initials, status, physical>>
     \/ BadTables(n) /\ Fail

Other(stage) == IF stage = S1 THEN S2 ELSE S1

\* The tables that a closed scope's tables are mapped into.
DestTables(s) ==
  parents[S1] \o parents[S2]
  \o (IF have(Other(s.stage)) THEN <<current[Other(s.stage)]>> ELSE <<>>)
  \o (IF options.self_map /\ s.is_new THEN <<s.id>> ELSE <<>>)

Pop(stage) ==
  /\ current' = [current EXCEPT ![stage] = IF parents[stage] = <<>> THEN None ELSE Last(parents[stage])]
  /\ parents' = [parents EXCEPT ![stage] = IF @ = <<>> THEN <<>> ELSE Front(@)]

CloseNested ==
  /\ status = "running"
  /\ scopes # <<>>
  /\ LET s == Last(scopes)
         r == MapTablesInto(MapCodeInto([all |-> all_tables, st |-> "ok"], <<s.id>>), s.id, DestTables(s))
     IN IF r.st = "ok"
        THEN /\ all_tables' = r.all
             /\ scopes' = Front(scopes)
             /\ Pop(s.stage)
             /\ last' = NoUpdates
             /\ UNCHANGED <<options, vars, named_tables, maybe_mapped, initials, status, physical>>
        ELSE Fail

(***************************************************************************)
(* The other commands, the start and the end.                              *)
(***************************************************************************)
Evaluate(c) ==
  /\ CanCommand
  /\ \E us \in {Updates(c)} : RunCommand(c, us, RunUpdates(us, c.level))

\* Nested scopes may have mapping commands only.
Initial(i) ==
  /\ CanCommand
  /\ scopes = <<>>
  /\ IF eval(i.addr).k = "error" THEN Fail
     ELSE /\ initials' = Append(initials, [addr |-> eval(i.addr), val |-> i.val])
          /\ last' = NoUpdates
          /\ UNCHANGED <<options, vars, all_tables, current, parents, named_tables, maybe_mapped,
                         scopes, status, physical>>

DefaultTables ==
  <<[pt |-> alloc(NewTables(S1Base)), stage |-> S1], [pt |-> alloc(NewTables(S2Base)), stage |-> S2]>>

Init ==
  /\ options \in [default_tables : BOOLEAN, self_map : BOOLEAN]
  /\ \E a \in AddressModels :
       vars = [n \in DeclNames \cup {"invalid"} |->
                 IF n = "invalid" THEN [k |-> "Invalid", v |-> 0] ELSE ToTVal(DeclOf(n).kind, a[n])]
  /\ all_tables = IF options.default_tables THEN DefaultTables ELSE <<>>
  /\ current = IF options.default_tables THEN <<1, 2>> ELSE <<None, None>>
  /\ parents = << <<>>, <<>> >>
  /\ named_tables = IF options.default_tables
                    THEN [n \in {S1DefaultName, S2DefaultName} |-> IF n = S1DefaultName THEN 1 ELSE 2]
                    ELSE [n \in {} |-> None]
  /\ maybe_mapped = {}
  /\ initials = <<>>
  /\ scopes = <<>>
  /\ status = "running"
  /\ physical = [addrs |-> [n \in {} |-> 0], initial |-> [n \in {} |-> 0]]
  /\ last = [us |-> <<>>, level |-> 3, n |-> 0, aliased |-> FALSE]

MemoryOf(all) == [id \in DOMAIN all |-> all[id].pt]

\* A walk from the level 0 table of the current tables of a stage.
Walk(all, stage, a) == initial_translation_table_walk(from_u64(a), all[current[stage]].pt.base, MemoryOf(all))

CannotTranslate == [st |-> "error", pa |-> 0]

translate(all, t) ==
  LET Stage2(ipa) == IF ~ have(S2) THEN CannotTranslate ELSE Walk(all, S2, ipa)
      After(w) == IF w.st = "error" THEN CannotTranslate ELSE Stage2(w.pa)
  IN CASE t.k = "VA" -> IF have(S1) /\ have(S2) THEN After(Walk(all, S1, t.v)) ELSE CannotTranslate
       [] t.k = "IPA" -> Stage2(t.v)
       [] t.k = "PA" -> [st |-> "done", pa |-> t.v]
       [] OTHER -> CannotTranslate

\* map_code for every table, then each default table into each.
FinalTables ==
  IF ~ options.default_tables THEN [all |-> all_tables, st |-> "ok"]
  ELSE MapTablesInto(MapTablesInto(
         MapCodeInto([all |-> all_tables, st |-> "ok"], [i \in DOMAIN all_tables |-> i]),
         1, <<1, 2>>), 2, <<1, 2>>)

\* The physical addresses the initial values go to; a later one wins.
eval_initial_constraints(all) ==
  FoldLeft(LAMBDA acc, i : [a \in DOMAIN acc \cup {translate(all, i.addr).pa} |->
                              IF a = translate(all, i.addr).pa THEN i.val ELSE acc[a]],
           [a \in {} |-> 0], initials)

Finish ==
  LET End(r) ==
        IF r.st = "ok" /\ \A i \in DOMAIN initials : translate(r.all, initials[i].addr).st # "error"
        THEN /\ all_tables' = r.all
             /\ physical' = [addrs   |-> [n \in {m \in DOMAIN vars : is_address(vars[m])} |->
                                             translate(r.all, vars[n]).pa],
                             initial |-> eval_initial_constraints(r.all)]
             /\ status' = "done"
             /\ last' = NoUpdates
             /\ UNCHANGED <<options, vars, current, parents, named_tables, maybe_mapped, initials, scopes>>
        ELSE Fail
  IN /\ status = "running"
     /\ scopes = <<>>
     /\ End(FinalTables)
=============================================================================

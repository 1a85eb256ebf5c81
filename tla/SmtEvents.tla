------------------------------ MODULE SmtEvents ------------------------------
(***************************************************************************)
(* The problem a candidate execution becomes, isla-axiomatic/src/          *)
(* smt_events.rs with its three SMT-LIB files.  A set or a relation that   *)
(* the code writes as a disjunction over events is here the set it         *)
(* denotes, under an assignment env of the symbols; an event is its place  *)
(* in exec.smt, IW is 0.  The solver is external: SolutionsIn are its      *)
(* models.                                                                 *)
(*                                                                         *)
(* A vector is <<width, number>>, so that vectors of different widths      *)
(* differ.  ctx is what the set-up gives: [initial, custom, objdump, fps,  *)
(* ignore_ifetch, page_tables]: initial values of locations, initial words *)
(* of the custom regions, the opcodes at addresses, the footprints.        *)
(***************************************************************************)
EXTENDS Axiomatic

CONSTANTS ByteBits,    \* bits of a byte
          AddrBytes    \* bytes of an address, and of a table entry

IW == 0
AddrBits == AddrBytes * ByteBits
Addr(n) == <<AddrBits, n>>
Zeros(bytes) == <<bytes * ByteBits, 0>>
Truncate(bv, bytes) == <<bytes * ByteBits, bv[2] % 2 ^ (bytes * ByteBits)>>
BytesOf(ev) == ev.bytes

(* smt_bitvec: a value under an assignment. *)
smt_bitvec(val, env) == IF val.k = "sym" THEN env[val.v] ELSE val.bits

-----------------------------------------------------------------------------
(* Conditions on events and on pairs of them *)

HasAddress(ax) == HasBase(ax) /\ IsMem(ax.base[1])
same_location(a, b, env) ==
  HasAddress(a) /\ HasAddress(b) /\ smt_bitvec(address(a), env) = smt_bitvec(address(b), env)

overlap_location(a, b, env) ==
  \E p \in addresses(a), q \in addresses(b) : smt_bitvec(p, env) = smt_bitvec(q, env)

(* Written data is extended or cut to the bytes read when one of the two   *)
(* is symbolic; two constants are compared as they are.                    *)
read_write_pair(w, r, env) ==
  /\ BaseIs(w, "writemem") /\ BaseIs(r, "readmem")
  /\ LET written == smt_bitvec(write_data(w), env)
         read == smt_bitvec(read_value(r), env)
         both == write_data(w).k = read_value(r).k
     IN read = IF both THEN written ELSE Truncate(written, BytesOf(r.base[1]))

(* The value of an address before any write: that of the location, that of *)
(* the custom region, else zero.                                           *)
InitialAt(a, bytes, custom, initial) ==
  CASE a \in DOMAIN initial -> Truncate(initial[a], bytes)
    [] a \notin DOMAIN initial /\ a \in DOMAIN custom -> Truncate(custom[a], bytes)
    [] OTHER -> Zeros(bytes)

read_initial_symbolic(read, a, bytes, ctx) == read = InitialAt(a, bytes, ctx.custom, ctx.initial)
read_initial_concrete(read, a, ctx) ==
  IF a \in DOMAIN ctx.initial THEN read[2] = ctx.initial[a][2]
  ELSE IF a \in DOMAIN ctx.custom THEN read = Truncate(ctx.custom[a], read[1] \div ByteBits)
       ELSE read[2] = 0

read_initial(ax, env, ctx) ==
  /\ BaseIs(ax, "readmem")
  /\ LET a == smt_bitvec(address(ax), env)
         read == smt_bitvec(read_value(ax), env)
     IN IF read_value(ax).k = "sym" THEN read_initial_symbolic(read, a, BytesOf(ax.base[1]), ctx)
        ELSE read_initial_concrete(read, a, ctx)

(* A fetch reads its opcode; the opcode there at first is the objdump's.   *)
ConcreteAddress(ax) == HasAddress(ax) /\ address(ax).k = "bits"
ifetch_initial(ax, env, ctx) ==
  /\ ax.opcode # NoOpcode /\ ConcreteAddress(ax) /\ BaseIs(ax, "readmem")
  /\ address(ax).bits \in DOMAIN ctx.objdump
  /\ ctx.objdump[address(ax).bits] = smt_bitvec(read_value(ax), env)
  /\ ctx.encoding[ax.opcode] = smt_bitvec(read_value(ax), env)
ifetch_match(ax, env, ctx) ==
  /\ ax.is_ifetch /\ ax.opcode # NoOpcode /\ BaseIs(ax, "readmem")
  /\ smt_bitvec(read_value(ax), env) = ctx.encoding[ax.opcode]

(* Some table entry the event reads has its valid bit clear. *)
IsEntryRead(ev) == ev.ev = "readmem" /\ BytesOf(ev) = AddrBytes
translate_read_invalid(ax, env) ==
  /\ is_translate(ax)
  /\ \E i \in DOMAIN ax.base : IsEntryRead(ax.base[i]) /\ smt_bitvec(ax.base[i].vals[1], env)[2] % 2 = 0

dep_rel_target(ax, env) ==
  \/ is_read(ax) \/ is_write(ax)
  \/ BaseIs(ax, "abstract") /\ ax.base[1].name = "sail_system_register_write"
  \/ translate_read_invalid(ax, env)

-----------------------------------------------------------------------------
(* Sets and relations of the events of a candidate *)

Events(exec) == 1 .. Len(exec.smt)
smt_set(exec, P(_)) == {i \in Events(exec) : P(exec.smt[i])}
smt_rel(exec, P(_, _)) == {p \in Events(exec) \X Events(exec) : P(exec.smt[p[1]], exec.smt[p[2]])}

R(exec) == smt_set(exec, is_read)
W(exec) == smt_set(exec, is_write)
IF_(exec) == smt_set(exec, is_ifetch)
AT(exec) == smt_set(exec, is_translate)
T(exec) == smt_set(exec, LAMBDA ax : is_translate(ax) /\ \E i \in DOMAIN ax.base : ax.base[i].ev = "readmem")
Stage1(exec) == smt_set(exec, LAMBDA ax : is_translate(ax) /\ is_in_s1_table(ax))
Stage2(exec) == smt_set(exec, LAMBDA ax : is_translate(ax) /\ is_in_s2_table(ax))
T_f(exec, env, ctx) == smt_set(exec, LAMBDA ax : ctx.page_tables /\ translate_read_invalid(ax, env))

(* A register set of the configuration; writes are found by their reads. *)
read_set(exec, regs) == smt_set(exec, LAMBDA ax : \E r \in regs : has_read_reg_of(ax, r))
write_set(exec, regs) == smt_set(exec, LAMBDA ax : \E r \in regs : has_read_reg_of(ax, r))

(* val_of and addr_of are total: IW and the events without have zero. *)
val_of(exec, i, bytes, env) ==
  IF i # IW /\ BaseIs(exec.smt[i], "writemem") /\ BytesOf(exec.smt[i].base[1]) = bytes
  THEN smt_bitvec(write_data(exec.smt[i]), env) ELSE Zeros(bytes)
addr_of(exec, i, env) ==
  IF i # IW /\ HasAddress(exec.smt[i]) THEN smt_bitvec(address(exec.smt[i]), env) ELSE Addr(0)
ReadEvents(ax) == {ax.base[i] : i \in {j \in DOMAIN ax.base : ax.base[j].ev = "readmem"}}
WriteEvents(ax) == {ax.base[i] : i \in {j \in DOMAIN ax.base : ax.base[j].ev = "writemem"}}
read_addr_of(ax, a, env) == \E ev \in ReadEvents(ax) : smt_bitvec(AddressOf(ev), env) = a
write_data_of(ax, d, env) == \E ev \in WriteEvents(ax) : smt_bitvec(ev.vals[1], env) = d
write_addr_data_of(ax, a, d, env) ==
  \E ev \in WriteEvents(ax) : smt_bitvec(AddressOf(ev), env) = a /\ smt_bitvec(ev.vals[1], env) = d

instruction_order_rel(exec) == smt_rel(exec, instruction_order)
po_rel(exec) == smt_rel(exec, po)
iio(exec) == smt_rel(exec, intra_instruction_ordered)
int(exec) == smt_rel(exec, internal)
ext(exec) == smt_rel(exec, external)
same_translation_rel(exec) == smt_rel(exec, same_translation)
fpo(exec) == smt_rel(exec, LAMBDA a, b : instruction_order(a, b) /\ a.is_ifetch /\ b.is_ifetch)
fe(exec) == smt_rel(exec, ifetch_to_execute)
loc(exec, env) == smt_rel(exec, LAMBDA a, b : disjoint(a, b) /\ same_location(a, b, env))
overlap_loc(exec, env) == smt_rel(exec, LAMBDA a, b : disjoint(a, b) /\ overlap_location(a, b, env))
po_loc(exec, env) == smt_rel(exec, LAMBDA a, b : po(a, b) /\ same_location(a, b, env))
rw_pair(exec, env) == smt_rel(exec, LAMBDA a, b : read_write_pair(a, b, env))
r_initial(exec, env, ctx) == smt_set(exec, LAMBDA ax : read_initial(ax, env, ctx))

smt_dep_rel(exec, fps, D(_, _, _, _)) == smt_rel(exec, LAMBDA a, b : D(a, b, exec.opcodes, fps))
smt_dep_rel2(exec, fps, env, D(_, _, _, _)) ==
  smt_rel(exec, LAMBDA a, b : D(a, b, exec.opcodes, fps) /\ dep_rel_target(b, env))
addr_rel(exec, env, ctx) == smt_dep_rel2(exec, ctx.fps, env, addr)
data_rel(exec, env, ctx) == smt_dep_rel2(exec, ctx.fps, env, data)
ctrl_rel(exec, ctx) == smt_dep_rel(exec, ctx.fps, ctrl)
rmw_rel(exec, ctx) == smt_dep_rel(exec, ctx.fps, rmw)
amo_rel(exec, ctx) == smt_dep_rel(exec, ctx.fps, amo)

Walks(exec) == exec.smt \o exec.other
translate_same_va_page(exec) == smt_rel(exec, LAMBDA a, b : same_va_page(Walks(exec), a, b))
translate_same_ipa_page(exec) == smt_rel(exec, LAMBDA a, b : same_ipa_page(Walks(exec), a, b))

(* An entry read earlier in the walk, for every read but the first. *)
translated_before(ax, a1, a2) ==
  LET reads == SelectSeq(ax.base, LAMBDA ev : ev.ev = "readmem" /\ AddressOf(ev).k = "bits")
      at(i) == AddressOf(reads[i]).bits
  IN \A i \in 2 .. Len(reads) : \E j \in 1 .. (i - 1) : a1 = at(j) /\ a2 = at(i)

-----------------------------------------------------------------------------
(* The axioms of smt_events.smt2 and ifetch.smt2 *)

Transitive(r) == \A p \in r, q \in r : p[2] = q[1] => <<p[1], q[2]>> \in r

\* Mutant: two writes to a location need not be ordered.
PartialCoherence(co, w, l) ==
  /\ \A p \in co : p[1] # p[2]
  /\ Transitive(co)
  /\ \A e \in w : <<IW, e>> \in co
  /\ \A p \in co : p[2] \in w /\ (p[1] = IW \/ (p[1] \in w /\ p \in l))

CoAxioms(co, w, l) ==
  /\ \A p \in co : p[1] # p[2]
  /\ Transitive(co)
  /\ \A a \in w, b \in w : a # b /\ <<a, b>> \in l => <<a, b>> \in co \/ <<b, a>> \in co
  /\ \A e \in w : <<IW, e>> \in co
  /\ \A p \in co, q \in co : p[2] = q[2] /\ p[1] # q[1] => <<p[1], q[1]>> \in co \/ <<q[1], p[1]>> \in co
  /\ \A p \in co : p[2] \in w /\ (p[1] = IW \/ (p[1] \in w /\ p \in l))

(* The events a read may read from, for rf and for irf. *)
RfSources(r, w, l, pairs, initial) ==
  {e \in w : <<e, r>> \in l /\ <<e, r>> \in pairs} \cup (IF r \in initial THEN {IW} ELSE {})
IrfSources(r, w, l, pairs, matching, initial) ==
  {e \in w : <<e, r>> \in l /\ r \in matching /\ <<e, r>> \in pairs} \cup (IF r \in initial THEN {IW} ELSE {})

(* last_write_to.smt2: an event with the value at the address and nothing  *)
(* after it, or IW when no write to the address follows it.                *)
last_write_to(exec, env, co, a, bytes, v, ctx) ==
  \/ \E e \in Events(exec) \cup {IW} :
       /\ val_of(exec, e, bytes, env) = Truncate(v, bytes)
       /\ addr_of(exec, e, env) = a
       /\ ~\E p \in co : p[1] = e
  \/ /\ v = InitialAt(a, AddrBytes, << >>, ctx.initial)
     /\ ~\E p \in co : p[1] = IW /\ addr_of(exec, p[2], env) = a

(* tt_write: an entry holds its initial word or what a write gave it. *)
tt_init(exec, a, d, ctx) ==
  \E i \in AT(exec) : \E ev \in ReadEvents(exec.smt[i]) :
    /\ IsEntryRead(ev) /\ AddressOf(ev) = VBits(AddrBits, a[2])
    /\ d = IF a \in DOMAIN ctx.custom THEN ctx.custom[a] ELSE Addr(0)
tt_write(e, exec, a, d, env, ctx) ==
  IF e = IW THEN tt_init(exec, a, d, ctx) ELSE write_addr_data_of(exec.smt[e], a, d, env)

(* The writes each entry read of a translation may come from. *)
EntryReads(exec) ==
  UNION {{<<i, j>> : j \in {k \in DOMAIN exec.smt[i].base : IsEntryRead(exec.smt[i].base[k])}} : i \in AT(exec)}
TrfSources(exec, er, env, ctx) ==
  LET ev == exec.smt[er[1]].base[er[2]]
  IN {e \in W(exec) \cup {IW} :
        tt_write(e, exec, smt_bitvec(AddressOf(ev), env), smt_bitvec(ev.vals[1], env), env, ctx)}
trf_internal(exec, trf, stage1) ==
  {<<trf[er], er[1]>> : er \in {x \in DOMAIN trf : (exec.smt[x[1]].base[x[2]].region = "stage 1") = stage1}}

-----------------------------------------------------------------------------
(* The final assertion *)

EqReg(reg, tid, v) == [k |-> "reg", reg |-> reg, tid |-> tid, v |-> v]
EqLast(a, bytes, v) == [k |-> "last", a |-> a, bytes |-> bytes, v |-> v]
Conj(exps) == [k |-> "and", exps |-> exps]
Disj(exps) == [k |-> "or", exps |-> exps]
Neg(e) == [k |-> "not", e |-> e]

eq_loc_to_smt(e, exec, env, co, ctx) ==
  CASE e.k = "reg" ->
         /\ <<e.reg, e.tid>> \in DOMAIN exec.final_writes
         /\ smt_bitvec(exec.final_writes[<<e.reg, e.tid>>], env) = e.v
    [] e.k = "last" -> last_write_to(exec, env, co, e.a, e.bytes, e.v, ctx)

RECURSIVE exp_to_smt(_, _, _, _, _)
exp_to_smt(e, exec, env, co, ctx) ==
  CASE e.k \in {"reg", "last"} -> eq_loc_to_smt(e, exec, env, co, ctx)
    [] e.k = "and" -> \A i \in DOMAIN e.exps : exp_to_smt(e.exps[i], exec, env, co, ctx)
    [] e.k = "or" -> \E i \in DOMAIN e.exps : exp_to_smt(e.exps[i], exec, env, co, ctx)
    [] e.k = "not" -> ~exp_to_smt(e.e, exec, env, co, ctx)

-----------------------------------------------------------------------------
(* The models of the problem.  The assignments are those of the traces'    *)
(* own definitions and assertions; a read takes one source, a fetch or a   *)
(* translate read, on which rf has no axiom, one or none.                  *)

AssignEvent(envs, ev) ==
  CASE ev.ev = "declare" -> {(ev.v :> d) @@ env : d \in Domain(ev.v[2]), env \in envs}
    [] ev.ev = "define" -> {(ev.v :> Denote(ev.e, env)) @@ env : env \in envs}
    [] ev.ev = "assert" -> {env \in envs : Denote(ev.e, env)}
    [] OTHER -> envs
Assignments(candidate) == FoldLeft(AssignEvent, {<< >>}, FlattenSeq(candidate))

Selections(S, Source(_)) == {f \in [S -> UNION {Source(s) : s \in S}] : \A s \in S : f[s] \in Source(s)}
NoSource == -1
RelOf(f) == {<<f[r], r>> : r \in {x \in DOMAIN f : f[x] # NoSource}}

CoherenceOrders(w, l) ==
  LET base == {<<IW, e>> : e \in w}
  IN {co \in {base \cup more : more \in SUBSET {p \in l : p[1] \in w /\ p[2] \in w /\ p[1] # p[2]}} : CoAxioms(co, w, l)}

ReadsFrom(exec, env, ctx, w, l) ==
  LET pairs == rw_pair(exec, env)
      initial == r_initial(exec, env, ctx)
      others == smt_set(exec, LAMBDA ax : BaseIs(ax, "readmem")) \ R(exec)
  IN {RelOf(f) : f \in Selections(R(exec) \cup others, LAMBDA r :
        RfSources(r, w, l, pairs, initial) \cup (IF r \in others THEN {NoSource} ELSE {}))}

FetchesFrom(exec, env, ctx, w, l) ==
  LET pairs == rw_pair(exec, env)
      matching == smt_set(exec, LAMBDA ax : ifetch_match(ax, env, ctx))
      initial == smt_set(exec, LAMBDA ax : ifetch_initial(ax, env, ctx))
  IN IF ctx.ignore_ifetch THEN {{}}
     ELSE {RelOf(f) : f \in Selections(IF_(exec), LAMBDA r : IrfSources(r, w, l, pairs, matching, initial))}

WalksFrom(exec, env, ctx) ==
  IF ~ctx.page_tables THEN {<< >>} ELSE Selections(EntryReads(exec), LAMBDA er : TrfSources(exec, er, env, ctx))

SolutionsIn(exec, env, trf, ctx, w, l) ==
  {[env |-> env, co |-> co, rf |-> rf, irf |-> irf, trf |-> trf] :
     co \in CoherenceOrders(w, l), rf \in ReadsFrom(exec, env, ctx, w, l), irf \in FetchesFrom(exec, env, ctx, w, l)}
=============================================================================

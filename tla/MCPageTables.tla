----------------------------- MODULE MCPageTables -----------------------------
(***************************************************************************)
(* Setups of a few commands over tables of four descriptors of two bytes.  *)
(***************************************************************************)
EXTENDS PageTableSetup

MCDecls == << [kind |-> "VA", align |-> 8, names |-> {"x", "y"}],
              [kind |-> "PA", align |-> 8, names |-> {"p"}],
              [kind |-> "IPA", align |-> 8, names |-> {"i"}] >>

\* y is in the level 3 table of x, or in the next one.
MCHolds(a) == a["x"] = 0 /\ a["y"] \in {8, 32} /\ a["p"] = 48 /\ a["i"] = 48

MCCodePages == <<80>>

MCNestings == {[stage |-> S1, name |-> "t1", addr |-> 1280],
               [stage |-> S1, name |-> "t1", addr |-> None],
               [stage |-> S2, name |-> "t2", addr |-> 1408]}

Id(n) == [f |-> "id", arg |-> n, level |-> 0, as |-> ""]

Default == [kind |-> "default", fields |-> {}]
Code == [kind |-> "code", fields |-> {}]
NoExecute == [kind |-> "default", fields |-> {[field |-> "UXN", len |-> 1, v |-> 1]}]

Cmd(cmd, from, to, level) ==
  [cmd |-> cmd, from |-> from, to |-> to, level |-> level, as |-> "", attrs |-> <<Default, Default>>]

MCConstraints ==
  {Cmd("identity", Id(n), Id(n), 3) : n \in {"x", "i"}}
  \cup {Cmd("identity", Id("p"), Id("p"), l) : l \in {1, 3}}
  \cup {Cmd("map", Id("x"), Id("p"), l) : l \in Levels}
  \cup {Cmd("map", Id("y"), Id("p"), l) : l \in {2, 3}}
  \cup {Cmd("map", Id("x"), Id("invalid"), l) : l \in {2, 3}}
  \cup {Cmd("maybe", Id("x"), Id("p"), 3), Cmd("maybe", Id("y"), Id("invalid"), 2),
        Cmd("map", Id("i"), Id("x"), 3),
        Cmd("map", Id("i"), [f |-> "va_to_pa", arg |-> "x", level |-> 0, as |-> ""], 3)}
  \cup {[Cmd("map", Id("x"), Id("p"), 3) EXCEPT !.as = "w", !.attrs = <<NoExecute, Default>>],
        Cmd("map", Id("y"), [f |-> "table", arg |-> "w", level |-> 3, as |-> "table"], 2),
        Cmd("maybe", Id("y"), [Id("p") EXCEPT !.as = "raw"], 3),
        [Cmd("identity", Id("p"), Id("p"), 3) EXCEPT !.attrs = <<Code, NoExecute>>]}

MCInitialValues == {[addr |-> Id("x"), val |-> 1], [addr |-> Id("undeclared"), val |-> 1]}

Next ==
  \/ \E c \in Constraints : Evaluate(c)
  \/ \E i \in InitialValues : Initial(i)
  \/ \E n \in Nestings : OpenNested(n)
  \/ CloseNested
  \/ Finish

Spec == Init /\ [][Next]_setupVars

(***************************************************************************)
(* Translations, from the descriptors a walk of one set of tables meets.   *)
(***************************************************************************)
Unmapped == [level |-> 0, pa |-> 0]

LeafOf(w, va) ==
  IF w.st = "done" /\ ~ is_invalid(w.descs[w.level + 1])
  THEN [level |-> w.level, pa |-> PhysicalAddress(w.descs[w.level + 1], va, w.level)] ELSE Unmapped

Translation(t, va) == LeafOf(initial_translation_table_walk(va, t.pt.base, <<t.pt>>), va)

Probes == {0, 8, 16, 32, 48, 64, 80, 128}

SameSpan(a, b, level) == Aligned(a, Span(level)) = Aligned(b, Span(level))

\* What an update of va at a level makes of the translation old of an address:
\* nothing when it is elsewhere, except that a table put in the place of a
\* block takes the rest of the block with it.
Expected(old, u, level, a) ==
  LET Kept == IF old.level > 0 /\ old.level = level - 1 /\ SameSpan(a, u.va, level - 1)
              THEN Unmapped ELSE old
  IN IF u.target.maybe \/ ~ SameSpan(a, u.va, level) THEN Kept
     ELSE IF is_invalid(u.target.bits) THEN Unmapped
     ELSE [level |-> level, pa |-> u.target.bits.out + page_offset(a, level)]

\* A mapping command maps what it names, where it says, and moves no other
\* address: after each command that has succeeded, every address translates as
\* the commands so far say.  Tables allocated on the way (page_table.rs:744)
\* must not disturb the translations that go through the tables they hang from.
CommandsTranslate ==
  [][last'.us # <<>> /\ ~ last'.aliased =>
       \A k \in DOMAIN last'.us : \A a \in Probes :
         LET u == last'.us[k]
         IN Translation(all_tables'[u.id], a)
            = Expected(Translation(all_tables[u.id], a), u, last'.level, a)]_setupVars

\* The descriptors of a set of tables that lead to one of its tables, from
\* the tables of levels 0 to 2.
Links(pt, ixs) == {<<t, i>> \in ixs \X (0 .. Entries - 1) : LookupDesc(pt, pt.tables[t][i].init) # NoTable
                                                            /\ ~ is_invalid(pt.tables[t][i].init)}

ChildrenOf(pt, ixs) == {LookupDesc(pt, pt.tables[l[1]][l[2]].init) : l \in Links(pt, ixs)}

\* No table is reached twice: neither by two descriptors of a level, nor at
\* two levels.  Otherwise an update through one address would change another.
IsTree(pt) ==
  LET Tree(l1) == LET Down(l2) == LET Bottom(l3) ==
            /\ Cardinality(Links(pt, {1})) = Cardinality(l1)
            /\ Cardinality(Links(pt, l1)) = Cardinality(l2)
            /\ Cardinality(Links(pt, l2)) = Cardinality(l3)
            /\ Cardinality({1} \cup l1 \cup l2 \cup l3) = 1 + Cardinality(l1) + Cardinality(l2) + Cardinality(l3)
          IN Bottom(ChildrenOf(pt, l2)) IN Down(ChildrenOf(pt, l1))
  IN Tree(ChildrenOf(pt, {1}))

\* The tables of every set form a tree, whatever the order of the commands,
\* the levels they map at and the tables that are mapped into each other
\* (setup.rs:1116): only a command that names a table itself may share one.
TablesAreTree == ~ last.aliased => \A id \in DOMAIN all_tables : IsTree(all_tables[id].pt)

\* Once the setup is done every thread's code is mapped, with the attributes of
\* code, in the default tables and in every table of a closed scope, whatever
\* the commands mapped there before (setup.rs:1096, 1205).
CodeIsMapped ==
  status = "done" =>
    \A id \in DOMAIN all_tables : \A i \in DOMAIN CodePages :
      LET w == initial_translation_table_walk(CodePages[i], all_tables[id].pt.base, <<all_tables[id].pt>>)
      IN ~ last.aliased =>
           /\ w.st = "done" /\ w.level = 3 /\ w.pa = CodePages[i]
           /\ w.descs[4] = page_desc_bits(CodePages[i], StageCode(all_tables[id].stage))

=============================================================================

--------------------------------- MODULE Ghw ---------------------------------
(***************************************************************************)
(* A GHW wave file from the simulation to the tool: the writer             *)
(* (src/src/grt/grt-waves.adb) puts the design at the start, the values    *)
(* before the processes run and the changes at the end of each time step,  *)
(* and the reader (GhwDump) is asked what it finds in the file, and in     *)
(* what is left of it if the program was killed.                           *)
(***************************************************************************)
EXTENDS GhwDump, FiniteSets

CONSTANTS
    Configs,      \* designs, with the order of bytes of the machine (be), the values
                  \* of the signals (values), what -f asks for (filter), the delays
                  \* between steps (gaps) and the number of steps (steps)
    CutLength     \* how many of the last bytes of the file may be missing

VARIABLES
    conf,
    pc,           \* "elab", "start" (waiting for the processes), "run", "closed"
    file,         \* the bytes
    sections,     \* Section_Table: names and positions
    dump,         \* Dump_Table: the signals, by their numbers
    val,          \* the value of each signal
    ro_event,     \* the signals whose RO_Event flag is set
    in_cyc,       \* In_Cyc
    wave_time,    \* Wave_Time
    now,          \* Current_Time
    steps,        \* the number of steps so far
    hist          \* the times and values that should be found

vars == <<conf, pc, file, sections, dump, val, ro_event, in_cyc, wave_time, now, steps, hist>>

Signals == DOMAIN conf.sigs

Init ==
    /\ conf \in Configs
    /\ pc = "elab"
    /\ file = <<>> /\ sections = <<>> /\ dump = <<>>
    /\ val = [n \in DOMAIN conf.sigs |-> conf.first[n]]
    /\ ro_event = {}
    /\ in_cyc = FALSE /\ wave_time = 0
    /\ now = 0 /\ steps = 0
    /\ hist = <<>>

-----------------------------------------------------------------------------
(* Writing: f has the bytes and the table of sections.                     *)

F == [bytes |-> file, sections |-> sections]
Written(f) == file' = f.bytes /\ sections' = f.sections

\* Mutant: the position is taken once the tag is written.
Mut_Wave_Section(f, name) ==
    [bytes |-> f.bytes \o Tags[name], sections |-> Append(f.sections, <<name, Len(f.bytes) + 4>>)]

Wave_Section(f, name) ==
    [bytes |-> f.bytes \o Tags[name], sections |-> Append(f.sections, <<name, Len(f.bytes)>>)]

Wave_Put(f, bytes) == [f EXCEPT !.bytes = @ \o bytes]
PutSection(f, name, bytes) == Wave_Put(Wave_Section(f, name), bytes)

Wave_Write_Size_Order == <<IF conf.be THEN 2 ELSE 1, 4, 1, 0>>
Write_File_Header == Magic \o <<16, 0, 1>> \o Wave_Write_Size_Order

Write_Signal_Value(sig) == Write_Value(conf.sigs[sig], val[sig])

Snapshot == [time |-> now, val |-> [n \in DOMAIN dump |-> val[dump[n]]]]

\* The sections of the header and their contents.
HeaderSections(D, w, hie) ==
    <<<<"STR", Write_Strings_Compress(conf.be, w.strs)>>,
      <<"TYP", Write_Types(D.types, conf.be, w)>>,
      <<"WKT", Write_Known_Types(D.types, w, D.known)>>,
      <<"HIE", Write_Hierarchy(D, conf.be, hie)>>,
      <<"EOH", <<>>>>>>

Wave_Start ==
    /\ pc = "elab"
    /\ \E w \in {Step_Name(conf.design)} :
       \E hie \in {Step_Hierarchy(conf.design, w)} :
       \E contents \in {HeaderSections(conf.design, w, hie)} :
          /\ Written(FoldLeft(LAMBDA f, c : PutSection(f, c[1], c[2]),
                              Wave_Put(F, Write_File_Header), contents))
          /\ dump' = Dump_Table(hie)
    /\ pc' = "start"
    /\ UNCHANGED <<conf, val, ro_event, in_cyc, wave_time, now, steps, hist>>

\* Wave_Start_Cb, at the start of the processes.
Write_Snapshot ==
    /\ pc = "start"
    /\ Written(PutSection(F, "SNP", <<0, 0, 0, 0>> \o Wave_Put_I64(conf.be, now)
                   \o FlattenSeq([n \in DOMAIN dump |-> Write_Signal_Value(dump[n])]) \o ESN))
    /\ hist' = Append(hist, Snapshot)
    /\ pc' = "run"
    /\ UNCHANGED <<conf, dump, val, ro_event, in_cyc, wave_time, now, steps>>

\* A signal changes, several times in a step perhaps.
Event ==
    /\ pc = "run"
    /\ \E sig \in Signals, v \in UNION {conf.values[n] : n \in Signals} :
          /\ v \in conf.values[sig] \ {val[sig]}
          /\ val' = [val EXCEPT ![sig] = v]
          /\ ro_event' = ro_event \cup {sig}
    /\ UNCHANGED <<conf, pc, file, sections, dump, in_cyc, wave_time, now, steps, hist>>

\* Mutant: the number of the signal instead of the distance.
Mut_Changes(last, n) == Wave_Put_ULEB128(n)

\* Which signal changes: the distance from the one before.
Changes(last, n) == Wave_Put_ULEB128(n - last)

ChangedList ==
    LET changed == InOrder({n \in DOMAIN dump : dump[n] \in ro_event})
    IN  FlattenSeq([k \in DOMAIN changed |->
            Changes(IF k = 1 THEN 0 ELSE changed[k - 1], changed[k])
            \o Write_Signal_Value(dump[changed[k]])]) \o <<0>>

CycleTime(f) ==
    IF in_cyc THEN Wave_Put(f, Wave_Put_LSLEB128(now - wave_time))
    ELSE PutSection(f, "CYC", Wave_Put_I64(conf.be, now))

\* The hook at the end of a time step, after which time goes on.
Wave_Cycle ==
    /\ pc = "run"
    /\ steps < conf.steps
    /\ Written(Wave_Put(CycleTime(F), ChangedList))
    /\ in_cyc' = TRUE
    /\ wave_time' = now
    /\ ro_event' = ro_event \ ToSet(dump)
    /\ hist' = Append(hist, Snapshot)
    /\ \E gap \in conf.gaps : now' = now + gap
    /\ steps' = steps + 1
    /\ UNCHANGED <<conf, pc, dump, val>>

Wave_Close_Cyc(f) == Wave_Put(f, Wave_Put_LSLEB128(-1) \o ECY)

Wave_Write_Directory(f) ==
    LET g == Wave_Section(f, "DIR")
        entry(s) == Tags[s[1]] \o Wave_Put_I32(conf.be, s[2])
        d == Wave_Put(g, Wave_Write_Size_Order \o Wave_Put_I32(conf.be, Len(g.sections))
                         \o FlattenSeq([k \in DOMAIN g.sections |-> entry(g.sections[k])]) \o EOD)
    IN  PutSection(d, "TAI", Wave_Write_Size_Order \o Wave_Put_I32(conf.be, Len(f.bytes)))

\* The end of the simulation, wherever it stops.
Wave_End ==
    /\ pc \in {"start", "run"}
    /\ Written(Wave_Write_Directory(IF in_cyc THEN Wave_Close_Cyc(F) ELSE F))
    /\ in_cyc' = FALSE
    /\ pc' = "closed"
    /\ UNCHANGED <<conf, dump, val, ro_event, wave_time, now, steps, hist>>

Finished == pc = "closed" /\ UNCHANGED vars

Next == Wave_Start \/ Write_Snapshot \/ Event \/ Wave_Cycle \/ Wave_End \/ Finished

Spec == Init /\ [][Next]_vars

-----------------------------------------------------------------------------
(* What should be found.                                                   *)

Base(bytes) == Then(ghw_open(bytes), LAMBDA o : ghw_read_base(bytes, o))
Header == Base(file)

\* What the header says does not change: it is looked at once, when the file is
\* closed before anything else is written.
HeaderOnly == pc = "closed" /\ hist = <<>>

\* The number of scalars of a type, counted from its bounds.
RECURSIVE Scalars_Of(_)
Scalars_Of(t) ==
    LET indices(r) == Cardinality(IF r.down THEN r.right .. r.left ELSE r.left .. r.right)
        times(x, y) == IF x = -1 \/ y = -1 THEN -1 ELSE x * y
        plus(x, y) == IF x = -1 \/ y = -1 THEN -1 ELSE x + y
    IN  CASE t.kind \in Scalars \cup {"sub"} -> 1
          [] t.kind = "array"    -> -1
          [] t.kind = "subarray" -> FoldLeft(LAMBDA n, r : times(n, indices(r)), Scalars_Of(t.base.el), t.rngs)
          [] OTHER               -> FoldLeft(LAMBDA n, e : plus(n, Scalars_Of(e.type)), 0, t.els)
Counted(t) == t @@ [nbr |-> Scalars_Of(t)]

\* A record whose unbounded elements have the given bounds.
RECURSIVE Bounded(_, _)
Bounded(base, bounds) ==
    LET element(t, b) ==
            CASE Scalars_Of(t) # -1 -> t
              [] t.kind = "array"   -> Counted([kind |-> "subarray", name |-> <<>>, base |-> t, rngs |-> b])
              [] t.kind = "record"  -> Bounded(t, b)
    IN  Counted([kind |-> "subrecord", name |-> <<>>, base |-> base,
                 els |-> [k \in DOMAIN base.els |->
                     [name |-> base.els[k].name, type |-> element(base.els[k].type, bounds[k])]]])

\* The type an object has in its context, as the reader should have it.
RECURSIVE Structure(_, _, _)
Structure(T, tid, ctx) ==
    LET t == T[tid]
        c == Canonical(T, tid, ctx)
        part(p) == Structure(T, p, c)
        parts(list) == [k \in DOMAIN list |-> part(list[k])]
        named == [kind |-> t.kind, name |-> t.name]
    IN  CASE t.kind \in Enums     -> named @@ [lits |-> t.lits]
          [] t.kind \in Numbers   -> named
          [] t.kind \in Physicals -> named @@ [units |-> t.units]
          [] t.kind = "sub"       -> named @@ [base |-> part(t.base), rng |-> t.rng[c]]
          [] t.kind = "array"     -> named @@ [el |-> part(t.el), dims |-> parts(t.idx)]
          [] t.kind = "subarray"  -> Counted(named @@ [base |-> part(t.base), rngs |-> t.rngs[c]])
          [] t.kind = "subrecord" -> [Bounded(part(t.base), t.rngs[c]) EXCEPT !.name = t.name]
          [] t.kind = "object"    -> Counted([kind |-> "subarray", name |-> <<>>, base |-> part(t.type),
                                              rngs |-> t.rngs[c]])
          [] t.kind \in {"record", "urecord"} ->
                 Counted([kind |-> "record", name |-> t.name,
                          els |-> [k \in DOMAIN t.els |->
                                     [name |-> t.els[k].name, type |-> part(t.els[k].type)]]])

\* The lines that show a design with full names, in the order of the source.
RECURSIVE Lines(_, _, _, _)
Lines(T, scope, ctx, path) ==
    LET c == Inside(scope, ctx)
        loop == scope.kind = "generate_for"
        value == ghw_disp_value(Structure(T, scope.iter.type, c), scope.iter.value)
        here == Append(path, IF loop THEN <<scope.name, value>> ELSE <<scope.name>>)
        object(o) == [kind |-> o.kind, name |-> Append(here, <<o.name>>),
                      type |-> Structure(T, o.type, c), sigs |-> o.sigs]
        objects == SelectSeq(scope.objects, LAMBDA o : o.shown)
        subs == SelectSeq(scope.subs, LAMBDA s : s.shown)
        line == [kind |-> scope.kind, name |-> here, type |-> NoType, sigs |-> <<>>]
    IN  <<line>> \o [k \in DOMAIN objects |-> object(objects[k])]
        \o FlattenSeq([k \in DOMAIN subs |-> Lines(T, subs[k], c, here)])

DesignLines ==
    LET D == conf.design
        tops == SelectSeq(Append(D.packages, D.root), LAMBDA s : s.shown)
    IN  FlattenSeq([k \in DOMAIN tops |-> Lines(D.types, tops[k], <<>>, <<>>)])

\* Objects in the order the tree is traversed.
Objects(nodes) == SelectSeq(nodes, LAMBDA n : n.kind \in SignalKinds)

\* Each object has the type it was declared with, with the bounds of its own
\* instance, and each number the base type its signal has; the types that are
\* displayed are those with a name, under that name (a design with a 64-bit
\* integer, which ghw_disp_type does not handle, is not among the designs).
TypesExact ==
    HeaderOnly =>
        \A h \in {Header.v} :
        LET objects == Objects(h.hie)
            declared == SelectSeq(DesignLines, LAMBDA l : l.kind \in SignalKinds)
            T == conf.design.types
            named == SelectSeq(Step_Name(conf.design).types,
                               LAMBDA e : T[e[1]].kind # "object" /\ T[e[1]].name # <<>>)
            shown == ghw_disp_types(h.types, FALSE)
        IN  /\ [k \in DOMAIN objects |-> objects[k].type] = [k \in DOMAIN declared |-> declared[k].type]
            /\ Typed(h) = DOMAIN dump
            /\ \A n \in DOMAIN dump : h.sigs[n].kind = conf.sigs[dump[n]]
            /\ \A w \in h.wkt : h.types[w[2]].name = T[conf.design.known[w[1]]].name
            /\ [k \in DOMAIN shown |-> shown[k][2]] = [k \in DOMAIN named |-> T[named[k][1]].name]

\* The signals of a group.
Group(r) == [k \in 1 .. r[2] - r[1] + 1 |-> r[1] + k - 1]

\* The tree is the design: displayed with full names it has the same lines in
\* the same order, shared signals keep one number, and the groups of consecutive
\* numbers stand for them all.
HierarchyExact ==
    HeaderOnly =>
        \A shown \in {Tail(ghw_disp_hie(Header.v.hie, TRUE))} :
        \A lines \in {DesignLines} :
        LET numbers(l) == FlattenSeq([k \in DOMAIN l.rest[2] |-> Group(l.rest[2][k])])
        IN  /\ Len(shown) = Len(lines)
            /\ \A k \in DOMAIN shown :
                  /\ shown[k].kind = lines[k].kind
                  /\ shown[k].name = lines[k].name
                  /\ shown[k].kind \in SignalKinds =>
                        /\ shown[k].rest[1] = ghw_disp_subtype_indication(lines[k].type)
                        /\ [j \in DOMAIN numbers(shown[k]) |-> dump[numbers(shown[k])[j]]]
                               = lines[k].sigs

-----------------------------------------------------------------------------
(* The values.                                                             *)

\* What is displayed for the steps, as the other way to show a value has it.
Line(h, n, v) ==
    LET text == ghw_get_value(h.sigs[n], v)
    IN  <<n, IF h.sigs[n].kind \in Enums THEN <<"lit", text, v>> ELSE <<"number", text>>>>
Expected(h, s) == <<s.time, [n \in DOMAIN dump |-> Line(h, n, s.val[n])]>>

HeaderLength == SelectInSeq(sections, LAMBDA s : s[1] = "EOH")
Start == sections[HeaderLength][2] + 4

\* Wherever the program is killed, what is left of the file past the header
\* gives the first steps, unchanged: never a value that was not, nor a step that
\* is half written.  A complete file gives them all.
PrefixReadable ==
    pc \in {"run", "closed"} =>
        \A h \in {Header} :
        \A expected \in {[k \in DOMAIN hist |-> Expected(h.v, hist[k])]} :
            /\ \A n \in {k \in Start .. Len(file) : k >= Len(file) - CutLength} :
                  IsPrefix(Display(SubSeq(file, 1, n), h, <<>>).lines, expected)
            /\ \A all \in {Display(file, h, <<>>)} :
                  /\ all.lines = expected
                  /\ pc = "closed" => all.end = "eof"

\* The display is restricted to the signals asked for, whatever the order of the
\* bounds of a range.
SelectionExact ==
    pc = "closed" =>
        \A lines \in {Display(file, Header, conf.filter).lines} :
        LET asked == UNION {LET r == conf.filter[k]
                            IN  {n \in DOMAIN dump : \/ r[1] <= n /\ n <= r[Len(r)]
                                                     \/ r[Len(r)] <= n /\ n <= r[1]}
                            : k \in DOMAIN conf.filter}
        IN  \A k \in DOMAIN lines :
               {lines[k][2][j][1] : j \in DOMAIN lines[k][2]} =
                   IF conf.filter = <<>> THEN DOMAIN dump ELSE asked

\* The directory leads to the start of each section, the end of the file to the
\* directory, and a list of the sections made by reading each of them agrees.
DirectoryExact ==
    pc = "closed" =>
        LET names == [k \in DOMAIN sections |-> sections[k][1]]
            tail == SubSeq(file, Len(file) - 11, Len(file))
            there(pos, tag) == Len(file) >= pos + 4 /\ SubSeq(file, pos + 1, pos + 4) = tag
        IN  /\ SubSeq(tail, 1, 4) = Tags["TAI"]
            /\ \A h \in {Header.v} :
               \A at \in {ghw_read_tailer(tail, [p |-> 5, ok |-> TRUE, v |-> h]).v} :
               \A dir \in {ghw_read_directory(file, [p |-> at + 5, ok |-> TRUE, v |-> h])} :
                  /\ there(at, Tags["DIR"])
                  /\ dir.ok
                  /\ Len(dir.v) = Len(sections) - 1
                  /\ \A k \in DOMAIN dir.v :
                        dir.v[k][1] = Tags[names[k]] /\ there(dir.v[k][2], dir.v[k][1])
            /\ ListSections(file, ghw_open(file)) = Append(names, "eof")
=============================================================================

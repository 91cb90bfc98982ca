--------------------------------- MODULE Fst ---------------------------------
(***************************************************************************)
(* An FST trace from the simulation to the viewer: the client              *)
(* (src/src/grt/grt-fst.adb) declares the signals, then emits, for each    *)
(* cycle, the time and the values of the signals with an event; the writer *)
(* (FstWriter) puts them in the file; the reader (FstReader) is asked at   *)
(* every moment what it would find if the program ended there.             *)
(***************************************************************************)
EXTENDS FstReader, FiniteSets

CONSTANT Blocks   \* strings of bytes the packers are checked on

VARIABLES
    todo,         \* the next signal of the cycle, 0 between two cycles
    now,          \* the number of the cycle, -1 before the first; cycles are
                  \* conf.step apart in time
    last          \* the value each signal had when it was last emitted

vars == <<wvars, todo, now, last>>

Handles == 1 .. maxhandle
Real(h) == conf.real[h]

Init ==
    /\ WriterInit
    /\ todo = 0 /\ now = -1
    /\ last = <<>>

-----------------------------------------------------------------------------
(* The client: Fst_Start puts all the signals, Fst_Cycle those with an     *)
(* event.  A real is declared but its value is not written.                *)

BeginCycle ==
    /\ todo = 0
    /\ now < conf.cycles
    /\ EmitTimeChange((now + 1) * conf.step)
    /\ now' = now + 1
    /\ todo' = IF maxhandle = 0 THEN 0 ELSE 1
    /\ UNCHANGED last

NextVar == todo' = IF todo = maxhandle THEN 0 ELSE todo + 1

\* Fst_Put_Var
EmitVar ==
    /\ todo # 0 /\ ~Real(todo)
    /\ \E v \in conf.values[todo] :
          /\ IF now = 0 THEN v = conf.first[todo] ELSE v # last[todo]
          /\ EmitValueChange(todo, v)
          /\ last' = IF now = 0 THEN Append(last, v) ELSE [last EXCEPT ![todo] = v]
    /\ NextVar
    /\ UNCHANGED now

\* Without an event, or with a type that is not written.
PassVar ==
    /\ pc = "run"
    /\ todo # 0
    /\ now > 0 \/ Real(todo)
    /\ last' = IF now = 0 THEN Append(last, <<>>) ELSE last
    /\ NextVar
    /\ UNCHANGED <<wvars, now>>

\* The dump is suspended and resumed (a call GHDL leaves to others).
Suspend ==
    /\ conf.suspends
    /\ todo = 0 /\ now >= 0
    /\ Len(xc.blackouts) < 2
    /\ EmitDumpActive(Len(xc.blackouts) = 1)
    /\ UNCHANGED <<todo, now, last>>

\* Fst_End
EndTrace == todo = 0 /\ Close /\ UNCHANGED <<todo, now, last>>

Finished == pc = "closed" /\ UNCHANGED vars

Next ==
    \/ BeginCycle \/ EmitVar \/ PassVar \/ Suspend \/ EndTrace
    \/ WriterStep /\ UNCHANGED <<todo, now, last>>
    \/ Finished

Spec == Init /\ [][Next]_vars

-----------------------------------------------------------------------------
(* What should be read.                                                    *)

\* A single character is read back in the alphabet of the format.
Shown(len, v) == IF len = 1 THEN <<Canonical(v[1])>> ELSE v

Of(changes, h) == SelectSeq(changes, LAMBDA c : c.handle = h)
ShownChanges(changes) ==
    [k \in DOMAIN changes |->
        [changes[k] EXCEPT !.val = Shown(xc.vals[changes[k].handle].len, @)]]

Trace == ShownChanges(SubSeq(emitted, 1, flushed))

\* The directory as a reader is given it: by the name of the trace, or by the
\* name of the packed copy while that one replaces it.
Reading == Open([names EXCEPT !.main = IF @ = "absent" THEN names.pak ELSE @], file, xc.hier.bytes)
Found == IterBlocks(Reading, NoRange)

\* While the program runs between two flushes nothing reaches the disk.
Prepared == flushed > 0 /\ pc # "run"

\* Wherever the program ends, every section that was completed can be read:
\* the file, its ".hier" and the packed copy are replaced in an order such
\* that the reader finds, for each signal, exactly the changes of these
\* sections, with their times, and nothing that is half written.
Recoverable ==
    Prepared =>
        \A r \in {Reading} :
            /\ r.opened
            /\ \A out \in {IterBlocks(r, NoRange).out} :
               \A h \in Handles : Of(out, h) = Of(Trace, h)

\* Time does not go back in what the reader reports, wherever the program ended,
\* although it merges the chains of all the signals through stacks and goes from
\* a section to the next.
TimeGoesOn ==
    Prepared =>
        \A r \in {Reading} : r.opened =>
            \A out \in {IterBlocks(r, NoRange).out} :
            \A k \in DOMAIN out : k = 1 \/ out[k - 1].time <= out[k].time

\* The memory the section announces is what its chains need once unpacked.
TraversalFits ==
    pc = "closed" =>
        \A loads \in {Found.loads} :
        \A k \in DOMAIN loads : loads[k].needed <= loads[k].memreq

-----------------------------------------------------------------------------
(* The hierarchy: what the client declared, in the order of the calls.     *)

Stems(k) == {m \in 1 .. k : conf.calls[m].call = "stem"}
FirstUse(k) ==
    CHOOSE m \in Stems(k) : /\ conf.calls[m].path = conf.calls[k].path
                            /\ \A j \in Stems(m - 1) : conf.calls[j].path # conf.calls[k].path
Stem(k) == Cardinality({conf.calls[m].path : m \in Stems(FirstUse(k))})
VarsBefore(k) == Len(SelectSeq(SubSeq(conf.calls, 1, k),
                               LAMBDA c : c.call = "var" /\ c.alias = 0))
Declaration(k, e) ==
    LET c == conf.calls[k]
    IN  CASE c.call = "scope"   -> e.htyp = "scope" /\ e.name = c.name /\ e.component = c.comp
          [] c.call = "upscope" -> e.htyp = "upscope"
          [] c.call = "attr"    -> e.htyp = "attr" /\ e.name = c.name /\ e.arg = c.arg
          [] c.call = "attrend" -> e.htyp = "attrend"
          [] c.call = "comment" -> e.htyp = "attr" /\ e.subtype = 0
          [] c.call = "stem"    -> e.htyp = "attr" /\ e.subtype = c.subtype /\ e.arg = c.line
                                   /\ e.number = Stem(k)
          [] c.call = "var"     -> e.htyp = "var" /\ e.name = c.name
                                   /\ e.is_alias = (c.alias # 0)
                                   /\ e.handle = IF c.alias # 0 THEN c.alias ELSE VarsBefore(k)

\* The attributes the writer adds in front of an entry: a path, a type.
Added(e) == e.htyp = "attr" /\ e.subtype \in {PathName, SupVar}

\* The viewer sees the declarations that were made: same entries in the same
\* order, each variable under the handle its changes are recorded for; and the
\* two records of the lengths, geometry and hierarchy, agree.
HierarchyExact ==
    pc = "closed" =>
        \A r \in {Reading} :
            /\ \A es \in {SelectSeq(Entries(r.hier), LAMBDA e : ~Added(e))} :
                  /\ Len(es) = Len(conf.calls)
                  /\ \A k \in DOMAIN es : Declaration(k, es[k])
            /\ ProcessHier(r.hier).lens = r.lens
            /\ ProcessHier(r.hier).num_alias = file.hdr.vars - file.hdr.maxhandle

-----------------------------------------------------------------------------
(* Queries, windows and interruptions, once the trace is complete.         *)

Sections(r) == {r.blocks[k] : k \in {m \in DOMAIN r.blocks : IsSection(r.blocks[m])}}

\* The times of the cycles and some time after each, inside of a section.
InsideTimes(r) ==
    {t \in {n * conf.step + k : n \in 0 .. conf.cycles, k \in 0 .. 1} :
        \E b \in Sections(r) : Covers(b, t)}

\* The end of a section that is not the end of the file.
Boundary(r, t) == t # r.end /\ \E b \in Sections(r) : t = b.end

ValueAt(trace, h, t) ==
    LET before == SelectSeq(trace, LAMBDA c : c.handle = h /\ c.time <= t)
    IN  IF xc.vals[h].len = 0 \/ before = <<>> THEN <<>> ELSE Last(before).val

Right(trace, q, t, h) ==
    \/ Shown(xc.vals[h].len, IF q.val = <<>> THEN <<0>> ELSE q.val) = ValueAt(trace, h, t)
    \/ xc.vals[h].len = 0 /\ q.val = <<>>

\* A query gets the last value recorded not after its time, whatever was asked
\* before: the cached section, chain and position never leak into the answer of
\* another signal or time.  The end of a section that another one follows is
\* the only time that loses the search, and not even then if the section is the
\* cached one.
QueryRight ==
    pc = "closed" =>
        \A r \in {Reading} :
        \A trace \in {Trace} :
        \A asked \in {InsideTimes(r) \X {h \in Handles : ~Real(h)}} :
        \A a \in asked : \A first \in {Query(NoCache, r, a[1], a[2])} :
            IF first.cache.lost THEN Boundary(r, a[1])
            ELSE \A b \in asked : \A second \in {Query(first.cache, r, b[1], b[2])} :
                    IF second.cache.lost
                    THEN /\ Boundary(r, b[1])
                         /\ first.cache.valid => ~Covers(r.blocks[first.cache.section], b[1])
                    ELSE Right(trace, second, b[1], b[2])

FinalValue(changes, h) ==
    IF Of(changes, h) = <<>> THEN <<>> ELSE Shown(xc.vals[h].len, Last(Of(changes, h)).val)

\* A scan that starts in the middle starts with the right values: reading only
\* the sections from some time on ends in the same state as reading them all.
WindowAgrees ==
    pc = "closed" =>
        \A r \in {Reading} :
        \A all \in {IterBlocks(r, NoRange).out} :
        \A from \in {b.beg : b \in {c \in {file.blocks[k] : k \in DOMAIN file.blocks} : IsSection(c)}} :
        \A some \in {IterBlocks(r, [valid |-> TRUE, from |-> from, to |-> conf.cycles * conf.step]).out} :
        \A h \in {k \in Handles : xc.vals[k].len # 0 /\ ~Real(k)} :
            FinalValue(some, h) = FinalValue(all, h)

\* Interruptions are read at the times they happened, as long as these are
\* stored as differences.
InterruptionsExact ==
    pc = "closed" => \A r \in {Reading} : r.opened => r.blackouts = xc.blackouts

-----------------------------------------------------------------------------
(* The encodings, on bounded inputs, once per trace.                       *)

Fresh == pc = "declare" /\ tim = 0

\* What the packers store, the reader unpacks.
PackersInvert ==
    \A b \in Blocks : \A pack \in {"4", "F"} : \A k \in {0, 3} :
        UnpackBlock(pack, PackBlock(pack, b) \o SubSeq(Beyond, 1, k), Len(b)) = b

\* Every boundary of the variable length integers; the lowest bit of a signed one
\* is that of its first byte.
Boundaries == UNION {{128 ^ n - 1, 128 ^ n, 64 * 128 ^ n - 1, 64 * 128 ^ n} : n \in 0 .. 2}
EncodingsInvert ==
    /\ \A v \in Boundaries :
          /\ ReadVarint(Varint(v) \o Beyond, 1) = [val |-> v, skip |-> Len(Varint(v))]
          /\ \A s \in {v, -v, -v - 1} :
                /\ GetSVarint(SVarint(s), 1) = s
                /\ s % 2 = SVarint(s)[1] % 2
    /\ \A b \in 0 .. 255 : EscToBin(BinToEsc(<<b, 10, b>>)) = <<b, 10, b>>
    /\ Cardinality({VcdID(h) : h \in 1 .. 300}) = 300

\* The codes of the format are inverted by the reader at every boundary, also
\* when the bytes that follow in the file are read with them: the packed blocks,
\* whose matches may overlap what they produce, the variable length integers,
\* whose lowest bit tells the entries of the table of positions apart, the
\* escaped names and the short names of handles.
CodecsInvert == Fresh => PackersInvert /\ EncodingsInvert
=============================================================================

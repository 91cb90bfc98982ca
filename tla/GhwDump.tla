------------------------------- MODULE GhwDump -------------------------------
(***************************************************************************)
(* Reading a whole GHW file (src/src/grt/ghwlib.c), its header then the    *)
(* values it has, and what the tool of src/src/grt/ghwdump.c makes of it.  *)
(* A section is named by a string, stored as the four bytes of its tag.    *)
(***************************************************************************)
EXTENDS GhwHier

Tags == [STR |-> <<83, 84, 82, 0>>, HIE |-> <<72, 73, 69, 0>>, TYP |-> <<84, 89, 80, 0>>,
         WKT |-> <<87, 75, 84, 0>>, EOH |-> <<69, 79, 72, 0>>, SNP |-> <<83, 78, 80, 0>>,
         CYC |-> <<67, 89, 67, 0>>, DIR |-> <<68, 73, 82, 0>>, TAI |-> <<84, 65, 73, 0>>]
ESN == <<69, 83, 78, 0>>
ECY == <<69, 67, 89, 0>>
EOD == <<69, 79, 68, 0>>
Magic == <<71, 72, 68, 76, 119, 97, 118, 101, 10>>

SectionOf(tag) == CHOOSE n \in DOMAIN Tags : Tags[n] = tag
IsSection(tag) == \E n \in DOMAIN Tags : Tags[n] = tag

-----------------------------------------------------------------------------
(* The header.  A handle h has what was read: .strs, .types, .wkt, .hie    *)
(* (nodes), .sigs (the types of the signals), .val and .time.              *)

NoHandle == [be |-> FALSE, strs |-> <<>>, types |-> <<>>, wkt |-> {}, hie |-> <<>>, sigs |-> <<>>,
             val |-> <<>>, time |-> 0, sm |-> "init"]

\* The magic, the version and the order of bytes; .v is the handle.
ghw_open(b) ==
    Then(ReadBytes(b, At(1), 16), LAMBDA hdr :
        IF SubSeq(hdr.v, 1, 11) = Magic \o <<16, 0>> /\ hdr.v[12] <= 1
              /\ hdr.v[13] \in {1, 2} /\ hdr.v[16] = 0
        THEN [hdr EXCEPT !.v = [NoHandle EXCEPT !.be = hdr.v[13] = 2]]
        ELSE Fail(hdr))

\* A section of the header, from after its tag; s.v is the handle.
Section(b, s, name) ==
    LET h == s.v
    IN  CASE name = "STR" -> Mapped(ghw_read_str(b, h.be, s), LAMBDA v : [h EXCEPT !.strs = v])
          [] name = "TYP" -> Mapped(ghw_read_type(b, h.be, h.strs, s), LAMBDA v : [h EXCEPT !.types = v])
          [] name = "WKT" -> Mapped(ghw_read_wk_types(b, h.types, s), LAMBDA v : [h EXCEPT !.wkt = v])
          [] name = "HIE" -> Mapped(ghw_read_hie(b, h.be, h.strs, h.types, s),
                                    LAMBDA v : [h EXCEPT !.hie = v.nodes, !.sigs = v.sigs,
                                                         !.val = [n \in DOMAIN v.sigs |-> -1]])
          [] OTHER        -> Fail(s)

RECURSIVE ghw_read_base(_, _)
ghw_read_base(b, s) ==
    Then(ReadBytes(b, s, 4), LAMBDA tag :
        LET at == [tag EXCEPT !.v = s.v]
        IN  IF ~IsSection(tag.v) THEN Fail(tag)
            ELSE IF SectionOf(tag.v) = "EOH" THEN at
            ELSE Then(Section(b, at, SectionOf(tag.v)), LAMBDA next : ghw_read_base(b, next)))

-----------------------------------------------------------------------------
(* The values.  Signals without a type are not in the file.                *)

Typed(h) == {n \in DOMAIN h.sigs : h.sigs[n] # NoType}

\* s.v is the handle before and after.
ghw_read_signal_value(b, s, n) ==
    Mapped(ghw_read_value(b, s, s.v.sigs[n]), LAMBDA v : [s.v EXCEPT !.val[n] = v])

ghw_read_snapshot(b, s) ==
    AfterHeader(b, s, 12, LAMBDA hdr :
        Then(FoldLeft(LAMBDA acc, n : Then(acc, LAMBDA r : ghw_read_signal_value(b, r, n)),
                      [hdr EXCEPT !.v = [s.v EXCEPT
                          !.time = ghw_get_i64(s.v.be, SubSeq(hdr.v, 5, 12))]],
                      InOrder(Typed(s.v))),
             LAMBDA vals : Expect(b, vals, ESN)))

ghw_read_cycle_start(b, s) ==
    Mapped(ReadBytes(b, s, 8), LAMBDA time : [s.v EXCEPT !.time = ghw_get_i64(s.v.be, time)])

\* The changes of a cycle: each is as many typed signals after the one before as
\* the number in front of it says.
RECURSIVE CycleCont(_, _, _)
CycleCont(b, s, i) ==
    Then(ghw_read_uleb128(b, s), LAMBDA d :
        LET after == InOrder({n \in Typed(s.v) : n > i})
            at == [d EXCEPT !.v = s.v]
        IN  IF d.v = 0 THEN at
            ELSE IF d.v > Len(after) THEN Fail(s)
            ELSE Then(ghw_read_signal_value(b, at, after[d.v]),
                      LAMBDA next : CycleCont(b, next, after[d.v])))
ghw_read_cycle_cont(b, s) == CycleCont(b, s, 0)

\* .more says whether another cycle follows.
ghw_read_cycle_next(b, s) ==
    LET d == ghw_read_lsleb128(b, s)
    IN  IF ~d.ok THEN d @@ [more |-> FALSE]
        ELSE IF d.v = -1 THEN [d EXCEPT !.v = s.v] @@ [more |-> FALSE]
        ELSE [d EXCEPT !.v = [s.v EXCEPT !.time = @ + d.v]] @@ [more |-> TRUE]

ghw_read_cycle_end(b, s) == Expect(b, s, ECY)

\* The entries of the directory: names and positions.
ghw_read_directory(b, s) ==
    LET entry(r) == Mapped(ReadBytes(b, r, 8),
                           LAMBDA e : <<SubSeq(e, 1, 4), ghw_get_i32(s.v.be, SubSeq(e, 5, 8))>>)
    IN  Then(ReadBytes(b, s, 8), LAMBDA hdr :
             Expect(b, ReadList(hdr, ghw_get_i32(s.v.be, SubSeq(hdr.v, 5, 8)), entry), EOD))

ghw_read_tailer(b, s) ==
    Mapped(ReadBytes(b, s, 8), LAMBDA hdr : ghw_get_i32(s.v.be, SubSeq(hdr, 5, 8)))

\* What is not a value: read, and the handle kept.
ReadOver(b, s, name) ==
    Then(IF name = "DIR" THEN ghw_read_directory(b, s) ELSE ghw_read_tailer(b, s),
         LAMBDA r : [r EXCEPT !.v = s.v])

\* A read with its result, or an error.
Result(r, res) == [p |-> r.p, ok |-> r.ok, v |-> r.v, res |-> IF r.ok THEN res ELSE "error"]
Plain(r) == [p |-> r.p, ok |-> r.ok, v |-> r.v]
InState(r, sm) == [r EXCEPT !.v = [@ EXCEPT !.sm = sm]]

\* A section of the values: its result, of which the handle is kept.
ghw_read_sm_hdr(b, s) ==
    LET tag == ReadBytes(b, s, 4)
        name == SectionOf(tag.v)
        at == [tag EXCEPT !.v = s.v]
    IN  IF ~tag.ok THEN tag @@ [res |-> "eof"]
        ELSE IF ~IsSection(tag.v) THEN Result(Fail(s), "error")
        ELSE CASE name = "SNP" -> Result(ghw_read_snapshot(b, at), "snapshot")
               [] name = "CYC" -> Result(Then(ghw_read_cycle_start(b, at),
                                              LAMBDA r : ghw_read_cycle_cont(b, r)), "cycle")
               [] name \in {"DIR", "TAI"} -> Result(ReadOver(b, at, name), "other")
               [] OTHER        -> Result(Fail(at), "error")

\* The next snapshot or cycle, the end of the file or an error.
RECURSIVE ghw_read_sm(_, _)
ghw_read_sm(b, s) ==
    IF s.v.sm # "cycle"
    THEN With(ghw_read_sm_hdr(b, s), LAMBDA hdr :
             CASE hdr.res = "other"    -> ghw_read_sm(b, Plain(hdr))
               [] hdr.res = "snapshot" -> InState(hdr, "sect")
               [] hdr.res = "cycle"    -> InState(hdr, "cycle")
               [] OTHER                -> hdr)
    ELSE With(ghw_read_cycle_next(b, s), LAMBDA next :
             IF ~next.ok THEN Result(next, "error")
             ELSE IF next.more THEN Result(ghw_read_cycle_cont(b, Plain(next)), "cycle")
             ELSE With(ghw_read_cycle_end(b, Plain(next)), LAMBDA end :
                      IF end.ok THEN ghw_read_sm(b, InState(end, "sect")) ELSE Result(end, "error")))

-----------------------------------------------------------------------------
(* The tool.                                                               *)

\* A signal or a range of signals, in either order.
Mut_add_signal_range(r) == r[1] .. r[Len(r)]

add_signal_range(r) ==
    LET first == r[1]
        last == r[Len(r)]
    IN  IF last < first THEN last .. first ELSE first .. last

\* What -f asks for: nothing is everything.
ghw_filter_signals(asked, n) == asked = <<>> \/ \E k \in DOMAIN asked : n \in add_signal_range(asked[k])

ghw_disp_values(h, asked) ==
    LET shown == InOrder({n \in Typed(h) : ghw_filter_signals(asked, n)})
    IN  [k \in DOMAIN shown |-> <<shown[k], ghw_disp_value(h.sigs[shown[k]], h.val[shown[k]])>>]

\* The times and values displayed, and how it ended: "eof", or "error", when the
\* tool aborts.
RECURSIVE Display(_, _, _)
Display(b, s, asked) ==
    With(ghw_read_sm(b, s), LAMBDA r :
        IF r.res \in {"eof", "error"} THEN [lines |-> <<>>, end |-> r.res]
        ELSE [Display(b, Plain(r), asked) EXCEPT
                 !.lines = <<<<r.v.time, ghw_disp_values(r.v, asked)>>>> \o @])

\* The list of the sections (-l): each is read by its own reader, the cycles of
\* a section together.
RECURSIVE ghw_read_cycle(_, _)
ghw_read_cycle(b, s) ==
    Then(ghw_read_cycle_cont(b, s), LAMBDA cont :
    With(ghw_read_cycle_next(b, cont), LAMBDA next :
         IF next.more THEN ghw_read_cycle(b, Plain(next))
         ELSE Then(Plain(next), LAMBDA end : ghw_read_cycle_end(b, end))))

RECURSIVE ListSections(_, _)
ListSections(b, s) ==
    LET tag == ReadBytes(b, s, 4)
        name == SectionOf(tag.v)
        at == [tag EXCEPT !.v = s.v]
    IN  IF ~tag.ok THEN <<"eof">>
        ELSE IF ~IsSection(tag.v) THEN <<"unknown">>
        ELSE With(CASE name = "EOH" -> at
                    [] name = "SNP" -> ghw_read_snapshot(b, at)
                    [] name = "CYC" -> Then(ghw_read_cycle_start(b, at),
                                            LAMBDA r : ghw_read_cycle(b, r))
                    [] name \in {"DIR", "TAI"} -> ReadOver(b, at, name)
                    [] OTHER        -> Section(b, at, name),
                  LAMBDA r : <<name>> \o IF r.ok THEN ListSections(b, r) ELSE <<"error">>)
=============================================================================

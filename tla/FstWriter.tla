------------------------------ MODULE FstWriter ------------------------------
(***************************************************************************)
(* The writer of FST files (src/src/grt/fst/fstapi.c), built as GHDL       *)
(* builds it: no threads, dynamic aliases.  A file is a header and a       *)
(* sequence of blocks; the value changes of a while are kept in memory,    *)
(* then written as one block (a section) in steps that end where the code  *)
(* flushes its buffers: the program may end after any of them, and what a  *)
(* reader then finds is the matter of module Fst.                          *)
(*                                                                         *)
(* The offsets of the code are abstracted: a value change in memory is     *)
(* named by its rank, a position in the file by a number of blocks.        *)
(***************************************************************************)
EXTENDS FstHier

CONSTANT Configs     \* records [calls, pack, break_size, size_limit, repack,
                     \*          compress_hier]: what the client sets; break_size
                     \* counts value changes, size_limit blocks (0: no limit)
CONSTANT DuoSize     \* a longer hierarchy is packed twice

\* The calls of the client that declare something.
Calls == {"scope", "upscope", "attr", "attrend", "comment", "stem", "var"}

\* Times are multiples of a step.
ASSUME ConfigsAssumption ==
    \A c \in Configs :
        /\ Len(c.calls) \in Nat
        /\ \A k \in 1 .. Len(c.calls) : c.calls[k].call \in Calls
        /\ c.step \in Nat

\* The packers, by the letter of the packing, and their inverses: given the size
\* of what was packed (module FstPackers).
CONSTANTS PackBlock(_, _), UnpackBlock(_, _, _)

VARIABLES
    conf,      \* the configuration of this file
    xc,        \* the writer context
    file,      \* [hdr, blocks]: the file as far as it is flushed
    names,     \* the names in the directory: main file, .pak, .hier
    pc,        \* where the writer is between two flushes
    tim,       \* the time being emitted while pc # "run"
    emitted,   \* history: the value changes since the creation
    flushed    \* history: how many of them are in complete sections

wvars == <<conf, xc, file, names, pc, tim, emitted, flushed>>

PackThreshold == 32        \* shorter chains are stored as they are

-----------------------------------------------------------------------------
(* Creation.                                                               *)

NewContext ==
    [hier |-> NoHier, paths |-> <<>>, geom |-> <<>>, numsigs |-> 0, numscopes |-> 0,
     vals |-> <<>>, curval |-> <<>>, mapped |-> FALSE,
     initial |-> TRUE, firsttime |-> 0, curtime |-> 0,
     vchg |-> <<>>, tchn |-> <<>>, tchn_idx |-> 0, secnum |-> 0,
     header_only |-> FALSE, skip_header |-> FALSE, locked |-> FALSE, truncpos |-> 0,
     blackouts |-> <<>>]

NoHeader == [start |-> 0, end |-> 0, scopes |-> 0, vars |-> 0, maxhandle |-> 0, sections |-> 0]

\* fstWriterCreate: the header is written and flushed, the ".hier" file is empty.
WriterInit ==
    /\ conf \in Configs
    /\ xc = NewContext
    /\ file = [hdr |-> NoHeader, blocks |-> <<>>]
    /\ names = [main |-> "raw", pak |-> "absent", hier |-> "empty"]
    /\ pc = "declare" /\ tim = 0
    /\ emitted = <<>> /\ flushed = 0

maxhandle == Len(xc.vals)

-----------------------------------------------------------------------------
(* Declarations: each call of the client extends the hierarchy.            *)

\* Mutant: a path seen before takes the last number given.
Mut_AddStem(x, c) ==
    LET known == \E k \in DOMAIN x.paths : x.paths[k] = c.path
        paths == IF known THEN x.paths ELSE Append(x.paths, c.path)
        named == IF known THEN x.hier ELSE PutMisc(x.hier, c.path, PathName, Len(paths))
    IN  [x EXCEPT !.paths = paths, !.hier = PutDoubleArg(named, c.subtype, Len(paths), c.line)]

\* fstWriterSetSourceStem_2: the first use of a path numbers it.
AddStem(x, c) ==
    LET known == \E k \in DOMAIN x.paths : x.paths[k] = c.path
        paths == IF known THEN x.paths ELSE Append(x.paths, c.path)
        sidx == CHOOSE k \in DOMAIN paths : paths[k] = c.path
        named == IF known THEN x.hier ELSE PutMisc(x.hier, c.path, PathName, sidx)
    IN  [x EXCEPT !.paths = paths, !.hier = PutDoubleArg(named, c.subtype, sidx, c.line)]

\* Initial values are unknown: 'x', or not a number for a real.
InitialValue(vt, len) ==
    IF vt \in RealTypes THEN <<0, 0, 0, 0, 0, 0, 248, 127>>
                        ELSE [k \in 1 .. VarLength(vt, len) |-> 120]

\* fstWriterCreateVar2 and fstWriterCreateVar; an alias that does not exist
\* makes a variable of its own.
AddVar(x, c) ==
    LET alias == IF c.alias > Len(x.vals) THEN 0 ELSE c.alias
        typed == PutMisc(x.hier, c.type, SupVar, c.svt * 1024 + c.sdt)
        y == [x EXCEPT !.hier = PutVar(typed, c.vt, c.dir, c.len, c.name, alias),
                       !.numsigs = @ + 1]
        len == VarLength(c.vt, c.len)
    IN  IF alias # 0 THEN y
        ELSE [y EXCEPT !.geom = Append(@, GeomLength(c.vt, c.len)),
                       !.vals = Append(@, [len |-> len, vchg |-> 0, tidx |-> 0]),
                       !.curval = Append(@, InitialValue(c.vt, c.len))]

Called(x, c) ==
    CASE c.call = "scope"   -> [x EXCEPT !.hier = PutScope(@, c.typ, c.name, c.comp),
                                         !.numscopes = @ + 1]
      [] c.call = "upscope" -> [x EXCEPT !.hier = PutUpscope(@)]
      [] c.call = "attr"    -> [x EXCEPT !.hier = PutAttrBegin(@, c.typ, c.subtype, c.name, c.arg)]
      [] c.call = "attrend" -> [x EXCEPT !.hier = PutAttrEnd(@)]
      [] c.call = "comment" -> [x EXCEPT !.hier = PutMisc(@, c.text, 0, 0)]
      [] c.call = "stem"    -> AddStem(x, c)
      [] c.call = "var"     -> AddVar(x, c)

\* tim counts the calls made.
Declare ==
    /\ pc = "declare"
    /\ tim < Len(conf.calls)
    /\ xc' = Called(xc, conf.calls[tim + 1])
    /\ tim' = tim + 1
    /\ UNCHANGED <<conf, file, names, pc, emitted, flushed>>

Declared ==
    /\ pc = "declare"
    /\ tim = Len(conf.calls)
    /\ pc' = "run"
    /\ tim' = 0
    /\ UNCHANGED <<conf, xc, file, names, emitted, flushed>>

-----------------------------------------------------------------------------
(* Blocks.                                                                 *)

\* The header of the next section; its length is not known yet.
SectionHeader(x) ==
    [tag |-> "skip", known |-> FALSE,
     beg |-> IF x.initial THEN x.firsttime ELSE x.curtime, end |-> x.curtime,
     memreq |-> 0, frame |-> x.curval, maxhandle |-> 0, pack |-> "4",
     body |-> <<>>, index |-> <<>>, tchn |-> <<>>]

\* fstWriterCreateMmaps also writes an intermediate header and flushes ".hier".
MapHeader(x) ==
    [start |-> x.firsttime, end |-> x.curtime, scopes |-> x.numscopes, vars |-> x.numsigs,
     maxhandle |-> Len(x.vals), sections |-> x.secnum]

Replace(blocks, block) == Append(Front(blocks), block)

\* The chain of a signal, its linked list read from the last change back.
Chain(vchg, len, last) ==
    LET upto[p \in 0 .. Len(vchg)] ==
            IF p = 0 THEN <<>>
            ELSE upto[vchg[p].next] \o EncodeChange(len, vchg[p].delta, vchg[p].data)
    IN  upto[last]

\* A chain is packed when it is long and this makes it shorter (zlib: always).
StoredAs(pack, chain, packed) ==
    IF Len(chain) > PackThreshold /\ (pack = "Z" \/ Len(packed) < Len(chain))
    THEN [length |-> Len(chain), size |-> Len(chain), bytes |-> packed]
    ELSE [length |-> Len(chain), size |-> 0, bytes |-> chain]
Stored(pack, chain) == StoredAs(pack, chain, PackBlock(pack, chain))

\* Mutant: only the lengths are compared.
Mut_SameBytes(seen, bytes) == {k \in DOMAIN seen : seen[k] # <<>> /\ Len(seen[k]) = Len(bytes)}

\* The lookup in the hash table of what the section already has.
SameBytes(seen, bytes) == {k \in DOMAIN seen : seen[k] = bytes}

NoChain(st) == [st EXCEPT !.offs = Append(@, 0), !.seen = Append(@, <<>>)]

\* Mutant: the memory of an alias is not counted.
Mut_PutChain(st, s) ==
    LET same == SameBytes(st.seen, s.bytes)
        next == [st EXCEPT !.seen = Append(@, s.bytes)]
    IN  IF same # {}
        THEN [next EXCEPT !.offs = Append(@, -(CHOOSE k \in same : st.offs[k] > 0))]
        ELSE [next EXCEPT !.offs = Append(@, Len(st.body)), !.memreq = @ + s.length,
                          !.body = @ \o Varint(s.size) \o s.bytes]

\* A chain goes to the body, unless the same bytes are already there for
\* another signal, which it is then an alias of.
PutChain(st, s) ==
    LET same == SameBytes(st.seen, s.bytes)
        next == [st EXCEPT !.seen = Append(@, s.bytes), !.memreq = @ + s.length]
    IN  IF same # {}
        THEN [next EXCEPT !.offs = Append(@, -(CHOOSE k \in same : st.offs[k] > 0))]
        ELSE [next EXCEPT !.offs = Append(@, Len(st.body)),
                          !.body = @ \o Varint(s.size) \o s.bytes]

\* One signal of a flush.
StoreChain(x, pack, st, h) ==
    IF x.vals[h].vchg = 0 THEN NoChain(st)
    ELSE PutChain(st, Stored(pack, Chain(x.vchg, x.vals[h].len, x.vals[h].vchg)))

\* The body starts with the letter of the packing.
StoreChains(x, pack) ==
    FoldLeft(LAMBDA st, h : StoreChain(x, pack, st, h),
             [body |-> <<0>>, offs |-> <<>>, seen |-> <<>>, memreq |-> 0],
             [h \in DOMAIN x.vals |-> h])

SectionWith(x, header, pack, st) ==
    [header EXCEPT !.known = TRUE, !.end = x.curtime, !.memreq = st.memreq,
                   !.maxhandle = Len(x.vals), !.pack = pack, !.body = st.body,
                   !.index = ChainIndex(st.offs), !.tchn = x.tchn]
SectionOf(x, header, pack) == SectionWith(x, header, pack, StoreChains(x, pack))

\* Mutant: the values are not kept for the next frame.
Mut_LastValue(x, h) == x.curval[h]

\* The frame of the next section: the last value of every fixed length signal.
LastValue(x, h) ==
    IF x.vals[h].vchg # 0 /\ x.vals[h].len # 0 THEN x.vchg[x.vals[h].vchg].data
                                               ELSE x.curval[h]

AfterFlush(x) ==
    [x EXCEPT !.curval = [h \in DOMAIN @ |-> LastValue(x, h)],
              !.vals = [h \in DOMAIN @ |->
                            IF @[h].vchg = 0 THEN @[h]
                            ELSE [@[h] EXCEPT !.vchg = 0, !.tidx = 0]],
              !.vchg = <<>>, !.tchn = <<>>, !.tchn_idx = 0,
              !.secnum = @ + 1, !.header_only = FALSE]

-----------------------------------------------------------------------------
(* fstWriterFlushContextPrivate, in three steps.  Nothing happens when no  *)
(* value changed; next is where the caller goes on.                        *)

NothingToFlush(x) == x.vchg = <<>>

\* The section and then its length are written under the tag "skip".
FlushBody(x, f) ==
    /\ file' = [f EXCEPT !.blocks = Replace(@, SectionOf(x, Last(@), conf.pack))]
    /\ xc' = AfterFlush(x)
    /\ pc' = "flush_tag"

FlushTag ==
    /\ pc = "flush_tag"
    /\ file' = [file EXCEPT !.blocks = Replace(@, [Last(@) EXCEPT !.tag = "vcdata"])]
    /\ flushed' = Len(emitted)
    /\ pc' = "flush_next"
    /\ UNCHANGED <<conf, xc, names, tim, emitted>>

\* The next section is begun, unless the file has become too long or is closed.
FlushNext ==
    /\ pc = "flush_next"
    /\ LET full == conf.size_limit # 0 /\ Len(file.blocks) >= conf.size_limit
           skip == xc.skip_header \/ full
           x == [xc EXCEPT !.truncpos = Len(file.blocks),
                           !.skip_header = skip,
                           !.locked = @ \/ full,
                           !.initial = @ \/ full,
                           !.header_only = ~skip]
       IN  /\ xc' = x
           /\ file' = IF skip THEN file
                      ELSE [file EXCEPT !.blocks = Append(@, SectionHeader(x))]
    /\ pc' = IF xc.skip_header THEN "geom" ELSE "time"
    /\ UNCHANGED <<conf, names, tim, emitted, flushed>>

-----------------------------------------------------------------------------
(* Time and value changes.                                                 *)

\* The first time: the first section is begun.
FirstTime(x, t) ==
    [x EXCEPT !.mapped = TRUE, !.firsttime = t, !.curtime = 0, !.vchg = <<>>,
              !.vals = [h \in DOMAIN @ |-> [@[h] EXCEPT !.vchg = 0, !.tidx = 0]],
              !.initial = FALSE, !.header_only = TRUE]

AddTime(x, t, idx) ==
    [x EXCEPT !.tchn = Append(@, t - x.curtime), !.tchn_idx = idx, !.curtime = t]

EmitFirstTime(t) ==
    /\ xc.initial /\ ~xc.locked
    /\ LET x == FirstTime(xc, t)
       IN  /\ xc' = AddTime(x, t, 0)
           /\ file' = [hdr |-> MapHeader(xc),
                       blocks |-> Append(file.blocks, SectionHeader([x EXCEPT !.initial = TRUE]))]
    /\ names' = [names EXCEPT !.hier = "full"]
    /\ UNCHANGED <<conf, pc, tim, emitted, flushed>>

EmitNextTime(t) ==
    /\ ~xc.initial
    /\ IF Len(xc.vchg) < conf.break_size
       THEN /\ xc' = AddTime(xc, t, xc.tchn_idx + 1)
            /\ UNCHANGED <<file, pc, tim>>
       ELSE FlushBody(xc, file) /\ tim' = t
    /\ UNCHANGED <<conf, names, emitted, flushed>>

\* Once the size limit has been reached, times are ignored.
EmitTimeChange(t) ==
    /\ pc = "run"
    /\ \/ EmitFirstTime(t)
       \/ EmitNextTime(t)
       \/ xc.locked /\ UNCHANGED wvars

\* Mutant: the list of times starts again from nothing.
Mut_TimeAfterFlush ==
    /\ pc = "time"
    /\ xc' = AddTime([xc EXCEPT !.tchn = <<0>>], tim, 1)
    /\ pc' = "run"
    /\ tim' = 0
    /\ UNCHANGED <<conf, file, names, emitted, flushed>>

\* After a flush the list of times starts with the time of the last section.
TimeAfterFlush ==
    /\ pc = "time"
    /\ xc' = AddTime([xc EXCEPT !.tchn = <<xc.curtime>>], tim, 1)
    /\ pc' = "run"
    /\ tim' = 0
    /\ UNCHANGED <<conf, file, names, emitted, flushed>>

\* A change in memory: linked to the one before, with the distance in time.
Change(x, h, v) ==
    [x EXCEPT !.vchg = Append(@, [next |-> x.vals[h].vchg,
                                  delta |-> x.tchn_idx - x.vals[h].tidx, data |-> v]),
              !.vals[h].vchg = Len(x.vchg) + 1,
              !.vals[h].tidx = x.tchn_idx]

\* fstWriterEmitValueChange and fstWriterEmitVariableLengthValueChange: while
\* the time has not started, or no longer goes on, only the frame is updated.
Emitted(x, h, v) ==
    IF x.initial /\ x.vals[h].len # 0 THEN [x EXCEPT !.curval[h] = v] ELSE Change(x, h, v)

EmitValueChange(h, v) ==
    /\ pc = "run"
    /\ xc.mapped
    /\ xc' = Emitted(xc, h, v)
    /\ emitted' = Append(emitted, [time |-> xc.curtime, handle |-> h, val |-> v])
    /\ UNCHANGED <<conf, file, names, pc, tim, flushed>>

EmitDumpActive(on) ==
    /\ pc = "run"
    /\ xc' = [xc EXCEPT !.blackouts = Append(@, [tim |-> xc.curtime, active |-> on])]
    /\ UNCHANGED <<conf, file, names, pc, tim, emitted, flushed>>

-----------------------------------------------------------------------------
(* fstWriterClose.                                                         *)

\* A section that has only its header is removed.
CloseTruncate ==
    /\ xc.header_only /\ xc.truncpos # 0 /\ NothingToFlush(xc) /\ ~xc.initial
    /\ file' = [file EXCEPT !.blocks = SubSeq(@, 1, xc.truncpos)]
    /\ xc' = [xc EXCEPT !.header_only = FALSE]
    /\ pc' = "geom"

\* The time never started: the values are written as changes at time 0.
Mockup(x) ==
    Repeat(LAMBDA y, h : IF y.vals[h].len # 0 THEN Change(y, h, y.curval[h]) ELSE y,
           AddTime(FirstTime(x, 0), 0, 0), Len(x.vals))
MockupFile(x) ==
    [hdr |-> MapHeader(x), blocks |-> <<SectionHeader([FirstTime(x, 0) EXCEPT !.initial = TRUE])>>]
FixedLength(x) == SelectSeq([h \in DOMAIN x.vals |-> h], LAMBDA h : x.vals[h].len # 0)
MockupChanges(x) ==
    [k \in DOMAIN FixedLength(x) |->
        [time |-> 0, handle |-> FixedLength(x)[k], val |-> x.curval[FixedLength(x)[k]]]]

CloseFlush ==
    LET start == xc.initial /\ ~xc.locked
        x == [(IF start THEN Mockup(xc) ELSE xc) EXCEPT !.skip_header = TRUE]
        f == IF start THEN MockupFile(xc) ELSE file
    IN  /\ ~(xc.header_only /\ xc.truncpos # 0 /\ NothingToFlush(xc) /\ ~xc.initial)
        /\ IF xc.locked \/ NothingToFlush(x)
           THEN xc' = x /\ file' = f /\ pc' = "geom"
           ELSE FlushBody(x, f)
        /\ emitted' = IF start THEN MockupChanges(xc) ELSE emitted

Close ==
    /\ pc = "run"
    /\ \/ CloseTruncate /\ UNCHANGED emitted
       \/ CloseFlush
    /\ names' = [names EXCEPT !.hier = "full"]
    /\ UNCHANGED <<conf, tim, flushed>>

\* A block is appended under the tag "skip", which is then overwritten.
AppendBlock(here, block, next) ==
    /\ pc = here
    /\ file' = [file EXCEPT !.blocks = Append(@, block)]
    /\ pc' = next
    /\ UNCHANGED <<conf, xc, names, tim, emitted, flushed>>

TagBlock(here, tag, next) ==
    /\ pc = here
    /\ file' = [file EXCEPT !.blocks = Replace(@, [Last(@) EXCEPT !.tag = tag])]
    /\ pc' = next
    /\ UNCHANGED <<conf, xc, names, tim, emitted, flushed>>

CloseGeom == AppendBlock("geom", [tag |-> "skip", known |-> TRUE, geom |-> xc.geom], "geom_tag")
CloseGeomTag ==
    TagBlock("geom_tag", "geom", IF xc.blackouts # <<>> THEN "blackout"
                                 ELSE IF conf.compress_hier THEN "hier" ELSE "header")

\* Mutant: the times are stored, not their differences.
Mut_Differences(blackouts) ==
    [k \in DOMAIN blackouts |-> [active |-> blackouts[k].active, delta |-> blackouts[k].tim]]

Differences(blackouts) ==
    [k \in DOMAIN blackouts |->
        [active |-> blackouts[k].active,
         delta |-> blackouts[k].tim - IF k = 1 THEN 0 ELSE blackouts[k - 1].tim]]

CloseBlackout ==
    AppendBlock("blackout",
                [tag |-> "skip", known |-> TRUE, blackouts |-> Differences(xc.blackouts)],
                "blackout_tag")
CloseBlackoutTag ==
    TagBlock("blackout_tag", "blackout", IF conf.compress_hier THEN "hier" ELSE "header")

\* The bytes counted are copied from ".hier", which is then removed; the
\* block is flushed once before its length is known.
Duo == conf.pack = "4" /\ ~conf.repack /\ xc.hier.file_len > DuoSize
HierKind ==
    CASE conf.pack # "4" -> "hier"
      [] Duo             -> "hier_lz4duo"
      [] OTHER           -> "hier_lz4"

PackTwice(packed) == Varint(Len(packed)) \o PackBlock("4", packed)
PackHier(bytes) ==
    CASE HierKind = "hier"     -> PackBlock("Z", bytes)
      [] HierKind = "hier_lz4" -> PackBlock("4", bytes)
      [] OTHER                 -> PackTwice(PackBlock("4", bytes))

HierBlock(known) ==
    [tag |-> "skip", known |-> known, uclen |-> xc.hier.file_len,
     hier |-> PackHier(SubSeq(xc.hier.bytes, 1, xc.hier.file_len))]
CloseHierBegin == AppendBlock("hier", HierBlock(FALSE), "hier_length")
CloseHier ==
    /\ pc = "hier_length"
    /\ file' = [file EXCEPT !.blocks = Replace(@, HierBlock(TRUE))]
    /\ pc' = "hier_tag"
    /\ UNCHANGED <<conf, xc, names, tim, emitted, flushed>>
CloseHierTag == TagBlock("hier_tag", HierKind, "unlink_hier")

CloseUnlinkHier ==
    /\ pc = "unlink_hier"
    /\ names' = [names EXCEPT !.hier = "absent"]
    /\ pc' = "header"
    /\ UNCHANGED <<conf, xc, file, tim, emitted, flushed>>

CloseHeader ==
    /\ pc = "header"
    /\ file' = [file EXCEPT !.hdr = MapHeader(xc)]
    /\ pc' = IF conf.repack THEN "pak" ELSE "closed"
    /\ UNCHANGED <<conf, xc, names, tim, emitted, flushed>>

\* The whole file is packed under the name ".pak", which then replaces it.
ClosePak ==
    /\ pc = "pak"
    /\ names' = [names EXCEPT !.pak = "wrapped"]
    /\ pc' = "unlink"
    /\ UNCHANGED <<conf, xc, file, tim, emitted, flushed>>

CloseUnlink ==
    /\ pc = "unlink"
    /\ names' = [names EXCEPT !.main = "absent"]
    /\ pc' = "rename"
    /\ UNCHANGED <<conf, xc, file, tim, emitted, flushed>>

CloseRename ==
    /\ pc = "rename"
    /\ names' = [names EXCEPT !.main = names.pak, !.pak = "absent"]
    /\ pc' = "closed"
    /\ UNCHANGED <<conf, xc, file, tim, emitted, flushed>>

\* The steps the writer makes by itself once called.
WriterStep ==
    \/ Declare \/ Declared
    \/ FlushTag \/ FlushNext \/ TimeAfterFlush
    \/ CloseGeom \/ CloseGeomTag \/ CloseBlackout \/ CloseBlackoutTag
    \/ CloseHierBegin \/ CloseHier \/ CloseHierTag \/ CloseUnlinkHier \/ CloseHeader
    \/ ClosePak \/ CloseUnlink \/ CloseRename
=============================================================================

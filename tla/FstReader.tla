------------------------------ MODULE FstReader ------------------------------
(***************************************************************************)
(* The reader of FST files (src/src/grt/fst/fstapi.c), as functions of     *)
(* what the writer has left on the disk: fstReaderOpen, fstReaderIterBlocks*)
(* (a scan of all the value changes) and fstReaderGetValueFromHandleAtTime *)
(* (a query, with its cache).  All the signals are in the process mask.    *)
(***************************************************************************)
EXTENDS FstWriter

CONSTANT MaxChanges      \* a section has no more changes than this: the bound
                         \* of the loops that go on until there is none left
ASSUME MaxChangesAssumption == MaxChanges \in Nat

-----------------------------------------------------------------------------
(* fstReaderInit: the blocks are read in order.  While the header was not  *)
(* completed the file stops at the first block without a length, the times *)
(* are those of the sections and the geometry is not used.                 *)

IsSection(block) == block.tag = "vcdata"

\* The times of a list of differences: its partial sums.
Sums(deltas) ==
    LET time[k \in 0 .. Len(deltas)] == IF k = 0 THEN 0 ELSE time[k - 1] + deltas[k]
    IN  [k \in DOMAIN deltas |-> time[k]]

BlackoutTimes(chain) ==
    LET times == Sums([k \in DOMAIN chain |-> chain[k].delta])
    IN  [k \in DOMAIN chain |-> [tim |-> times[k], active |-> chain[k].active]]

ScanBlock(st, block) ==
    IF st.stop \/ ~block.known THEN [st EXCEPT !.stop = TRUE]
    ELSE CASE block.tag = "vcdata" ->
                [st EXCEPT !.sections = @ + 1,
                           !.start = IF st.incomplete /\ st.sections = 0 THEN block.beg ELSE @,
                           !.end = IF st.incomplete THEN block.end ELSE @]
           [] block.tag = "geom" ->
                IF st.incomplete THEN st ELSE [st EXCEPT !.lens = ReadGeom(block.geom)]
           [] block.tag \in {"hier", "hier_lz4", "hier_lz4duo"} -> [st EXCEPT !.hier = block]
           [] block.tag = "blackout" -> [st EXCEPT !.blackouts = BlackoutTimes(block.blackouts)]
           [] block.tag = "skip" -> st

\* fstReaderRecreateHierFile: the copy of the hierarchy in the file.
NoHierBlock == [tag |-> "none"]
RecreateHierFile(block) ==
    LET duo == ReadVarint(block.hier, 1)
        once == UnpackBlock("4", SubSeq(block.hier, 1 + duo.skip, Len(block.hier)), duo.val)
    IN  CASE block.tag = "hier"        -> UnpackBlock("Z", block.hier, block.uclen)
          [] block.tag = "hier_lz4"    -> UnpackBlock("4", block.hier, block.uclen)
          [] block.tag = "hier_lz4duo" -> UnpackBlock("4", once, block.uclen)
          [] OTHER                     -> <<>>

\* The hierarchy: the file ".hier" when there is one, or that copy.
HierBytes(dir, st, hier) ==
    CASE dir.hier = "full"  -> hier
      [] dir.hier = "empty" -> <<>>
      [] OTHER              -> RecreateHierFile(st.hier)

NotOpened == [opened |-> FALSE]

\* Without the geometry the lengths are those of the hierarchy.
OpenedWith(f, st, hier, lens) ==
    IF lens = <<>> THEN NotOpened
    ELSE [opened |-> TRUE, start |-> st.start, end |-> st.end, sections |-> st.sections,
          lens |-> lens, hier |-> hier, blackouts |-> st.blackouts, blocks |-> f.blocks]
Opened(f, st, hier) ==
    OpenedWith(f, st, hier, IF st.lens # <<>> THEN st.lens ELSE ProcessHier(hier).lens)

\* fstReaderOpen.  hier is the content of the file ".hier".
ScanBlocks(hdr, blocks) ==
    Repeat(LAMBDA st, k : ScanBlock(st, blocks[k]),
           [stop |-> FALSE, sections |-> 0, start |-> hdr.start, end |-> hdr.end,
            incomplete |-> hdr.start = 0 /\ hdr.end = 0,
            lens |-> <<>>, hier |-> NoHierBlock, blackouts |-> <<>>],
           Len(blocks))
Open(dir, f, hier) ==
    LET st == ScanBlocks(f.hdr, f.blocks)
    IN  IF \/ dir.main = "absent"
           \/ st.sections = 0
           \/ dir.hier = "absent" /\ st.hier = NoHierBlock
        THEN NotOpened
        ELSE Opened(f, st, HierBytes(dir, st, hier))

-----------------------------------------------------------------------------
(* Loading a section: its times, and the chain of each signal, unpacked.   *)

\* What follows the body in the file: a packed chain is read with as many
\* bytes too many as the length in front of it has.
Beyond == <<1, 1, 1, 1, 1>>

LoadChain(section, offset, length) ==
    LET p == offset + 1
        skip == VarintLength(section.body, p)
        size == GetVarint(section.body, p)
        src == SubSeq(section.body \o Beyond, p + skip, p + skip + length - 1)
    IN  IF size # 0 THEN UnpackBlock(section.pack, src, size)
        ELSE SubSeq(section.body, p + skip, p + length - 1)

\* The signals with a chain; handles are counted from 1, the table from 0.
Chains(section, tab) ==
    [h \in {k \in 1 .. section.maxhandle : tab.chain[k - 1] # 0} |->
        LoadChain(section, tab.chain[h - 1], tab.length[h - 1])]

Loaded(chains) == FoldFunction(LAMBDA chain, n : n + Len(chain), 0, chains)

-----------------------------------------------------------------------------
(* The traversal.  For each time, tc holds the stack of the signals with a *)
(* change at that time; a signal that was treated goes to the stack of its *)
(* next change, which may be the same.                                     *)

Schedule(st, lens, h, i) ==
    LET t == i + ChangeDelta(lens[h], st.chains[h], st.pos[h])
    IN  [st EXCEPT !.tc[t] = <<h>> \o @]

\* At first each stack has the signals with their first change at its time, the
\* last one on the top.
StartTraversal(section, chains, lens) ==
    LET handles == SelectSeq([h \in 1 .. section.maxhandle |-> h], LAMBDA h : h \in DOMAIN chains)
        firsts(i) == SelectSeq(handles, LAMBDA h : 1 + ChangeDelta(lens[h], chains[h], 1) = i)
    IN  [chains |-> chains, pos |-> [h \in DOMAIN chains |-> 1],
         tc |-> [i \in 1 .. Len(section.tchn) |-> Reverse(firsts(i))], out |-> <<>>]

\* The signal on the top of the stack of time i.
TakeTop(st, lens, times, i) ==
    IF st.tc[i] = <<>> THEN st
    ELSE LET h == Head(st.tc[i])
             r == DecodeChange(lens[h], st.chains[h], st.pos[h])
             s == [st EXCEPT !.tc[i] = Tail(@), !.pos[h] = r.next,
                             !.out = Append(@, [time |-> times[i], handle |-> h, val |-> r.val])]
         IN  IF r.next > Len(st.chains[h]) THEN s ELSE Schedule(s, lens, h, i)

\* Until the stack is empty.
Drain(st, lens, times, i) ==
    Repeat(LAMBDA s, n : TakeTop(s, lens, times, i), st, MaxChanges)

Traverse(section, chains, lens) ==
    LET times == Sums(section.tchn)
    IN  Repeat(LAMBDA st, i : Drain(st, lens, times, i),
               StartTraversal(section, chains, lens), Len(times)).out

-----------------------------------------------------------------------------
(* fstReaderIterBlocks: the sections one after the other, until a block    *)
(* that is not finished.  Given a range, the sections that begin outside   *)
(* are skipped and the scan starts with the frame of the first one kept.   *)
(* The table of the chains is allocated once for the sections of a size.   *)

NoRange == [valid |-> FALSE, from |-> 0, to |-> 0]

\* Signals of variable length are not in the frame.
FrameChanges(section, lens) ==
    LET hs == SelectSeq([h \in DOMAIN section.frame |-> h], LAMBDA h : lens[h] # 0)
    IN  [k \in DOMAIN hs |-> [time |-> section.beg, handle |-> hs[k], val |-> section.frame[hs[k]]]]

FreshTable(st, section) ==
    IF section.maxhandle > st.largest
    THEN [NoTable(section.maxhandle) EXCEPT !.pidx = st.tab.pidx]
    ELSE st.tab

ReadChains(st, lens, section, tab, chains) ==
    LET frame == st.count = 0 /\ (section.beg # section.tchn[1] \/ st.skipped)
    IN  [st EXCEPT !.tab = tab, !.count = @ + 1,
                   !.largest = IF section.maxhandle > @ THEN section.maxhandle ELSE @,
                   !.loads = Append(@, [needed |-> Loaded(chains), memreq |-> section.memreq]),
                   !.out = @ \o (IF frame THEN FrameChanges(section, lens) ELSE <<>>)
                             \o Traverse(section, chains, lens)]

ReadTable(st, lens, section, tab) == ReadChains(st, lens, section, tab, Chains(section, tab))
ReadSection(st, lens, section) ==
    ReadTable(st, lens, section,
              ReadIndex(FreshTable(st, section), section.index, Len(section.body)))

\* The scan ends with the last section counted when the file was opened.
StopAfter(st, n) == [st EXCEPT !.stop = st.count = n]

ScanSection(st, r, range, block) ==
    IF st.stop \/ ~block.known \/ block.tag = "skip" THEN [st EXCEPT !.stop = TRUE]
    ELSE IF ~IsSection(block) THEN st
    ELSE IF range.valid /\ block.beg < range.from THEN [st EXCEPT !.skipped = TRUE]
    ELSE IF range.valid /\ block.beg > range.to THEN [st EXCEPT !.stop = TRUE]
    ELSE StopAfter(ReadSection(st, r.lens, block), r.sections)

IterBlocks(r, range) ==
    Repeat(LAMBDA st, k : ScanSection(st, r, range, r.blocks[k]),
           [stop |-> FALSE, skipped |-> FALSE, count |-> 0, tab |-> NoTable(0), largest |-> 0,
            loads |-> <<>>, out |-> <<>>],
           Len(r.blocks))

-----------------------------------------------------------------------------
(* fstReaderGetValueFromHandleAtTime.  The cache holds a section, its times *)
(* and table, the chain of a signal and the position of the last query.    *)

NoCache == [valid |-> FALSE, section |-> 0, times |-> <<>>, table |-> NoTable(0), chain |-> <<>>, facidx |-> 0,
            pos_valid |-> FALSE, pos_idx |-> 1, pos_tidx |-> 0, pos_time |-> 0, lost |-> FALSE]

Covers(block, t) == IsSection(block) /\ block.beg <= t /\ t <= block.end

\* The blocks that the search may reach.
Reached(r) ==
    {k \in DOMAIN r.blocks : \A m \in 1 .. k : r.blocks[m].known /\ r.blocks[m].tag # "skip"}

\* The first section that has the time, or 0.
FindSection(r, t) ==
    LET found == {k \in Reached(r) : Covers(r.blocks[k], t)}
    IN  IF found = {} THEN 0 ELSE CHOOSE k \in found : \A m \in found : k <= m

\* The end of a section that is not the end of the file may be the beginning of
\* the next section, which the code looks for one byte after the beginning of
\* the section it is in: it takes for a block type the first byte of a length
\* (0: no section is that long), and a length made of the seven other bytes and
\* one of a time.  It keeps the section, with that length: what is read then,
\* and whether the program survives it, is not determined.
Lost(r, k, t) == t = r.blocks[k].end /\ t # r.end

LoadSection(r, k) ==
    LET section == r.blocks[k]
    IN  [NoCache EXCEPT !.valid = TRUE, !.section = k, !.times = Sums(section.tchn),
            !.table = ReadIndex(NoTable(section.maxhandle), section.index, Len(section.body))]

UseSection(cache, r, t) ==
    IF cache.valid /\ Covers(r.blocks[cache.section], t) THEN cache
    ELSE IF FindSection(r, t) = 0 THEN NoCache
    ELSE IF Lost(r, FindSection(r, t), t) THEN [NoCache EXCEPT !.lost = TRUE]
    ELSE LoadSection(r, FindSection(r, t))

UseChain(cache, section, h) ==
    IF cache.chain # <<>> /\ h = cache.facidx THEN cache
    ELSE [cache EXCEPT !.pos_valid = @ /\ cache.chain = <<>>, !.facidx = h,
                       !.chain = LoadChain(section, cache.table.chain[h - 1],
                                           cache.table.length[h - 1])]

\* From position i on, the last change not after t.
WalkOn(st, len, chain, times, t) ==
    IF st.i > Len(chain) THEN st
    ELSE LET d == ChangeDelta(len, chain, st.i)
         IN  IF times[st.tidx + d + 1] > t THEN st
             ELSE [i |-> DecodeChange(len, chain, st.i).next, tidx |-> st.tidx + d,
                   prev |-> st.i, ptidx |-> st.tidx]
Walk(start, len, chain, times, t) ==
    Repeat(LAMBDA st, n : WalkOn(st, len, chain, times, t), start, MaxChanges)

\* Mutant: the last position is resumed even for an earlier time.
Mut_Process(cache, section, len, t) ==
    LET resume == cache.pos_valid
        c == IF resume THEN cache ELSE [cache EXCEPT !.pos_time = section.beg]
        w == Walk([i |-> IF resume THEN c.pos_idx ELSE 1, tidx |-> IF resume THEN c.pos_tidx ELSE 0,
                   prev |-> 0, ptidx |-> 0],
                  len, c.chain, c.times, t)
    IN  IF w.prev = 0
        THEN [cache |-> c, val |-> section.frame[c.facidx]]
        ELSE [cache |-> [c EXCEPT !.pos_valid = TRUE, !.pos_idx = w.prev, !.pos_tidx = w.ptidx,
                                  !.pos_time = t],
              val |-> DecodeChange(len, c.chain, w.prev).val]

Process(cache, section, len, t) ==
    LET resume == cache.pos_valid /\ t >= cache.pos_time
        c == IF resume THEN cache ELSE [cache EXCEPT !.pos_time = section.beg]
        w == Walk([i |-> IF resume THEN c.pos_idx ELSE 1, tidx |-> IF resume THEN c.pos_tidx ELSE 0,
                   prev |-> 0, ptidx |-> 0],
                  len, c.chain, c.times, t)
    IN  IF w.prev = 0
        THEN [cache |-> c, val |-> section.frame[c.facidx]]
        ELSE [cache |-> [c EXCEPT !.pos_valid = TRUE, !.pos_idx = w.prev, !.pos_tidx = w.ptidx,
                                  !.pos_time = t],
              val |-> DecodeChange(len, c.chain, w.prev).val]

\* A query, from a cache: the value and the cache after it.  There is no answer
\* (<<>>) for a signal of variable length or a time outside of the sections; if
\* the cache is lost the one given here, and those to later questions, are void.
Query(cache, r, t, h) ==
    LET c == UseSection(cache, r, t)
        section == r.blocks[c.section]        \* when c is valid
    IN  IF r.lens[h] = 0 THEN [cache |-> cache, val |-> <<>>]
        ELSE IF ~c.valid THEN [cache |-> c, val |-> <<>>]
        ELSE IF c.table.chain[h - 1] = 0 THEN [cache |-> c, val |-> section.frame[h]]
        ELSE Process(UseChain(c, section, h), section, r.lens[h], t)
=============================================================================

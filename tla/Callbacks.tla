----------------------------- MODULE Callbacks -----------------------------
(***************************************************************************)
(* The callback lists of the kernel (grt-callbacks.adb), cell by cell: one *)
(* Callback_List, one Callback_Time_List, and the list of recycled cells   *)
(* that all lists share.  While a callback executes it may register other  *)
(* callbacks, in the list that is being walked as well, and delete some,   *)
(* itself included.                                                        *)
(*                                                                         *)
(* A definition Mut_X, before X, is X with a plausible slip; the runs      *)
(* replace X by it to show that the properties notice.                     *)
(***************************************************************************)
EXTENDS Subsequences, FiniteSetsExt

CONSTANTS
    Id,         \* the registrations of a simulation: a bound
    Cell,       \* the cells that can be allocated
    Null,       \* the null handle
    None,       \* no callback
    TimeHigh    \* Std_Time'Last

ASSUME CallbackAssumption ==
    /\ IsFiniteSet(Cell)
    /\ Null \notin Cell
    /\ None \notin Id \cup Cell \cup {Null}
    /\ TimeHigh \in Nat \ {0}

VARIABLES
    Next_Of, Mode, T, Proc,     \* the fields of each Cb_Cell
    Allocated,                  \* the cells created by "new" so far
    Recycled_Handles,
    First, Last,                \* the Callback_List
    Time_First, First_Timeout,  \* the Callback_Time_List
    Cb_Handle,                  \* the handle the client keeps
    step,                       \* where Call_Callbacks or
    walk,                       \* Call_Time_Callbacks is, and its variables
    current,                    \* the callback that is executing
    Current_Time

cellVars == <<Next_Of, Mode, T, Proc>>
listVars == <<First, Last>>
timeListVars == <<Time_First, First_Timeout>>
walkVars == <<step, walk, current>>
vars == <<cellVars, Allocated, Recycled_Handles, listVars, timeListVars,
          Cb_Handle, walkVars, Current_Time>>

\* Proc of a deleted callback.
Nop_Callback == None

Idle == [cell |-> Null, prev |-> Null, last |-> Null]

\* The client is running: between two rounds, or in a callback.
ClientTurn == step = "idle" \/ current # None

-----------------------------------------------------------------------------
(***************************************************************************)
(* Cells                                                                   *)
(***************************************************************************)
\* Allocate_Handle: a recycled cell if there is one.
Allocate_Handle ==
    IF Recycled_Handles # Null THEN Recycled_Handles
    ELSE CHOOSE c \in Cell : c \notin Allocated

Allocates ==
    /\ Recycled_Handles = Null => Cell \ Allocated # {}
    /\ Allocated' = Allocated \cup {Allocate_Handle}
    /\ Recycled_Handles' = IF Recycled_Handles = Null THEN Null
                           ELSE Next_Of[Recycled_Handles]

Mut_Freed(links, c) == [links EXCEPT ![c] = Null]

\* The value of the links once c has been put on the recycled list.
Freed(links, c) == [links EXCEPT ![c] = Recycled_Handles]

\* A handle is worth nothing once its cell is freed: the client forgets it.
Forget(c) == Cb_Handle' = [id \in Id |-> IF Cb_Handle[id] = c THEN None
                                         ELSE Cb_Handle[id]]

\* The cell that is reached from c after i links, or Null.
Reached(links, c) ==
    LET cell[i \in 0 .. Cardinality(Cell)] ==
            IF i = 0 THEN c
            ELSE IF cell[i - 1] = Null THEN Null
            ELSE links[cell[i - 1]]
    IN  cell

\* The cells from c on, following the links.
Chain(links, c) ==
    LET cell == Reached(links, c)
        len == Cardinality({i \in DOMAIN cell : cell[i] # Null})
    IN  [i \in 1 .. len |-> cell[i - 1]]

-----------------------------------------------------------------------------
(***************************************************************************)
(* What the client calls                                                   *)
(***************************************************************************)
Register_Callback(id, m) ==
    LET h == Allocate_Handle
        links == [Next_Of EXCEPT ![h] = Null]
    IN  /\ ClientTurn
        /\ Cb_Handle[id] = Null
        /\ Allocates
        /\ Mode' = [Mode EXCEPT ![h] = m]
        /\ T' = [T EXCEPT ![h] = 0]
        /\ Proc' = [Proc EXCEPT ![h] = id]
        /\ Next_Of' = IF First = Null THEN links
                                      ELSE [links EXCEPT ![Last] = h]
        /\ First' = IF First = Null THEN h ELSE First
        /\ Last' = h
        /\ Cb_Handle' = [Cb_Handle EXCEPT ![id] = h]
        /\ UNCHANGED <<timeListVars, walkVars, Current_Time>>

Mut_Passes(c, t) == T[c] < t

\* The new timeout at t goes after c.
Passes(c, t) == T[c] <= t

\* How many timeouts of the list stay before a new one at t.
Before(list, t) == Max({i \in 0 .. Len(list) :
                           \A j \in 1 .. i : Passes(list[j], t)})

Register_Callback_At(id, t) ==
    LET h == Allocate_Handle
        list == Chain(Next_Of, Time_First)
        n == Before(list, t)
        cur == IF n < Len(list) THEN list[n + 1] ELSE Null
        links == [Next_Of EXCEPT ![h] = cur]
    IN  /\ ClientTurn
        /\ Cb_Handle[id] = Null
        /\ t \in Current_Time .. TimeHigh
        /\ Allocates
        /\ Mode' = [Mode EXCEPT ![h] = "Timed"]
        /\ T' = [T EXCEPT ![h] = t]
        /\ Proc' = [Proc EXCEPT ![h] = id]
        /\ IF n = 0
           THEN Next_Of' = links /\ Time_First' = h /\ First_Timeout' = t
           ELSE /\ Next_Of' = [links EXCEPT ![list[n]] = h]
                /\ UNCHANGED timeListVars
        /\ Cb_Handle' = [Cb_Handle EXCEPT ![id] = h]
        /\ UNCHANGED <<listVars, walkVars, Current_Time>>

Mut_Deleted_Mode(h) == "Oneshot"

\* The cell of a repeated callback goes at the next call.
Deleted_Mode(h) == IF Mode[h] = "Repeat" THEN "Oneshot" ELSE Mode[h]

\* vpi_remove_cb frees the client's handle as well.
Delete_Callback(id) ==
    LET h == Cb_Handle[id]
    IN  /\ ClientTurn
        /\ h \in Cell
        /\ Proc' = [Proc EXCEPT ![h] = Nop_Callback]
        /\ Mode' = [Mode EXCEPT ![h] = Deleted_Mode(h)]
        /\ Forget(h)
        /\ UNCHANGED <<Next_Of, T, Allocated, Recycled_Handles, listVars,
                       timeListVars, walkVars, Current_Time>>

-----------------------------------------------------------------------------
(***************************************************************************)
(* Call_Callbacks                                                          *)
(***************************************************************************)
\* The walk stops at the cell that is the last one now.
Call_Callbacks ==
    /\ step = "idle"
    /\ First # Null
    /\ walk' = [cell |-> First, prev |-> Null, last |-> Last]
    /\ step' = "call"
    /\ UNCHANGED <<cellVars, Allocated, Recycled_Handles, listVars,
                   timeListVars, Cb_Handle, current, Current_Time>>

Call_Cell ==
    /\ step = "call"
    /\ current' = Proc[walk.cell]
    /\ step' = "in"
    /\ UNCHANGED <<cellVars, Allocated, Recycled_Handles, listVars,
                   timeListVars, Cb_Handle, walk, Current_Time>>

Mut_New_Last(next) == Last

\* Last once the cell of the walk is removed.
New_Last(next) == IF next = Null THEN walk.prev ELSE Last

\* The callback returns: its cell is removed if it is not repeated.  Next is
\* read after the call.
Return_Cell ==
    LET c == walk.cell
        next == Next_Of[c]
        oneshot == Mode[c] = "Oneshot"
    IN  /\ step = "in"
        /\ current' = None
        /\ IF oneshot
           THEN /\ First' = IF walk.prev = Null THEN next ELSE First
                /\ Next_Of' = IF walk.prev = Null THEN Freed(Next_Of, c)
                              ELSE Freed([Next_Of EXCEPT ![walk.prev] = next],
                                         c)
                /\ Last' = New_Last(next)
                /\ Recycled_Handles' = c
                /\ Forget(c)
           ELSE UNCHANGED <<Next_Of, listVars, Recycled_Handles, Cb_Handle>>
        /\ IF c = walk.last
           THEN walk' = Idle /\ step' = "end"
           ELSE /\ walk' = [walk EXCEPT !.cell = next,
                                        !.prev = IF oneshot THEN walk.prev
                                                            ELSE c]
                /\ step' = "call"
        /\ UNCHANGED <<Mode, T, Proc, Allocated, timeListVars, Current_Time>>

End_Calls ==
    /\ step = "end"
    /\ step' = "idle"
    /\ UNCHANGED <<cellVars, Allocated, Recycled_Handles, listVars,
                   timeListVars, Cb_Handle, walk, current, Current_Time>>

-----------------------------------------------------------------------------
(***************************************************************************)
(* Call_Time_Callbacks                                                     *)
(***************************************************************************)
\* The kernel calls it in the cycle at the first timeout.
Call_Time_Callbacks ==
    /\ step = "idle"
    /\ First_Timeout = Current_Time
    /\ step' = "time"
    /\ UNCHANGED <<cellVars, Allocated, Recycled_Handles, listVars,
                   timeListVars, Cb_Handle, walk, current, Current_Time>>

Mut_New_First_Timeout == First_Timeout

New_First_Timeout == IF Time_First = Null THEN TimeHigh ELSE T[Time_First]

\* The cell is recycled before its callback is called.
Call_Timed_Cell ==
    LET c == Time_First
    IN  /\ step = "time"
        /\ c # Null
        /\ T[c] <= Current_Time
        /\ Time_First' = Next_Of[c]
        /\ current' = Proc[c]
        /\ Next_Of' = Freed(Next_Of, c)
        /\ Recycled_Handles' = c
        /\ Forget(c)
        /\ step' = "time_in"
        /\ UNCHANGED <<Mode, T, Proc, Allocated, listVars, First_Timeout,
                       walk, Current_Time>>

Return_Timed ==
    /\ step = "time_in"
    /\ current' = None
    /\ step' = "time"
    /\ UNCHANGED <<cellVars, Allocated, Recycled_Handles, listVars,
                   timeListVars, Cb_Handle, walk, Current_Time>>

End_Timed ==
    /\ step = "time"
    /\ Time_First # Null => T[Time_First] > Current_Time
    /\ First_Timeout' = New_First_Timeout
    /\ step' = "idle"
    /\ UNCHANGED <<cellVars, Allocated, Recycled_Handles, listVars,
                   Time_First, Cb_Handle, walk, current, Current_Time>>

-----------------------------------------------------------------------------
Mut_In_Reach(t) == TRUE

\* Compute_Next_Time never goes beyond the first timeout.
In_Reach(t) == t <= First_Timeout

Advance(t) ==
    /\ step = "idle"
    /\ t > Current_Time
    /\ In_Reach(t)
    /\ Current_Time' = t
    /\ UNCHANGED <<cellVars, Allocated, Recycled_Handles, listVars,
                   timeListVars, Cb_Handle, walkVars>>

Init ==
    /\ Next_Of = [c \in Cell |-> Null]
    /\ Mode = [c \in Cell |-> "Timed"]
    /\ T = [c \in Cell |-> 0]
    /\ Proc = [c \in Cell |-> None]
    /\ Allocated = {}
    /\ Recycled_Handles = Null
    /\ First = Null /\ Last = Null
    /\ Time_First = Null /\ First_Timeout = TimeHigh
    /\ Cb_Handle = [id \in Id |-> Null]
    /\ step = "idle"
    /\ walk = Idle
    /\ current = None
    /\ Current_Time = 0

Next ==
    \/ \E id \in Id :
          \/ \E m \in {"Repeat", "Oneshot"} : Register_Callback(id, m)
          \/ \E t \in 0 .. TimeHigh : Register_Callback_At(id, t)
          \/ Delete_Callback(id)
    \/ Call_Callbacks
    \/ Call_Cell
    \/ Return_Cell
    \/ End_Calls
    \/ Call_Time_Callbacks
    \/ Call_Timed_Cell
    \/ Return_Timed
    \/ End_Timed
    \/ \E t \in 0 .. TimeHigh : Advance(t)

Spec == Init /\ [][Next]_vars

-----------------------------------------------------------------------------
(***************************************************************************)
(* Properties                                                              *)
(***************************************************************************)
\* The types of the fields of grt-callbacks.ads and of the local variables of
\* the two walks.
TypeOK ==
    /\ Next_Of \in [Cell -> Cell \cup {Null}]
    /\ Mode \in [Cell -> {"Timed", "Repeat", "Oneshot"}]
    /\ T \in [Cell -> 0 .. TimeHigh]
    /\ Proc \in [Cell -> Id \cup {Nop_Callback}]
    /\ Allocated \subseteq Cell
    /\ {Recycled_Handles, First, Last, Time_First} \subseteq Allocated \cup {Null}
    /\ First_Timeout \in 0 .. TimeHigh
    /\ Cb_Handle \in [Id -> Allocated \cup {Null, None}]
    /\ step \in {"idle", "call", "in", "end", "time", "time_in"}
    /\ walk \in [cell : Allocated \cup {Null}, prev : Allocated \cup {Null},
                 last : Allocated \cup {Null}]
    /\ current \in Id \cup {None}
    /\ Current_Time \in 0 .. TimeHigh

\* Every cell Allocate_Handle ever created is in one place, once: the list,
\* the timeouts or the recycled cells.  None is lost, none is shared, whatever
\* the callbacks of a walk register and delete; and a handle the client still
\* holds is the cell of its own callback, never a cell recycled for another.
\* Last, after which Register_Callback appends, is the last cell of the list
\* although the walk of Call_Callbacks removes cells while its callbacks append
\* others; the cells of the list have a Callback_Non_Timed_Mode, no other has.
CellsPartitioned ==
    LET list == Chain(Next_Of, First)
        timeouts == Chain(Next_Of, Time_First)
        all == list \o timeouts \o Chain(Next_Of, Recycled_Handles)
    IN  /\ Last = IF list = <<>> THEN Null ELSE list[Len(list)]
        /\ \A i \in DOMAIN list : Mode[list[i]] # "Timed"
        /\ \A i \in DOMAIN timeouts : Mode[timeouts[i]] = "Timed"
        /\ Len(all) = Cardinality(Allocated)
        /\ {all[i] : i \in DOMAIN all} = Allocated
        /\ \A id \in Id : Cb_Handle[id] \in Cell =>
              /\ Proc[Cb_Handle[id]] = id
              /\ \A i \in DOMAIN Chain(Next_Of, Recycled_Handles) :
                    Chain(Next_Of, Recycled_Handles)[i] # Cb_Handle[id]

\* Out of Call_Time_Callbacks, First_Timeout, which Compute_Next_Time takes
\* into account, is the time of the earliest timeout, and it is not past.
FirstTimeoutExact ==
    step \notin {"time", "time_in"} =>
        LET list == Chain(Next_Of, Time_First)
        IN  /\ First_Timeout =
                   Min({TimeHigh} \cup {T[list[i]] : i \in DOMAIN list})
            /\ First_Timeout >= Current_Time

-----------------------------------------------------------------------------
Live == {c \in Cell : Proc[c] # Nop_Callback}

\* What remains of the walk, without the cell whose callback is executing.
Rest ==
    LET c == Chain(Next_Of, walk.cell)
        last == CHOOSE i \in DOMAIN c : c[i] = walk.last
    IN  CASE step = "call" -> SubSeq(c, 1, last)
          [] step = "in" -> SubSeq(c, 2, last)
          [] OTHER -> <<>>

\* The cell Call_Callbacks is about to remove is in the list no more.
Removing == {c \in {walk.cell} : step = "in" /\ Mode[c] = "Oneshot"}

AbstractQueue ==
    Each([c \in Cell |-> [id |-> Proc[c], mode |-> Mode[c]]],
         Only(Chain(Next_Of, First), Live \ Removing))

AbstractTodo == Each(Proc, Only(Rest, Live))

AbstractTimeouts ==
    Each([c \in Cell |-> [id |-> Proc[c], t |-> T[c]]],
         Only(Chain(Next_Of, Time_First), Live))

AbstractRound ==
    CASE step = "idle" -> "none"
      [] step \in {"call", "in", "end"} -> "list"
      [] step \in {"time", "time_in"} -> "time"

Abstract == INSTANCE CallbackQueue WITH
    registered <- {id \in Id : Cb_Handle[id] # Null},
    queue <- AbstractQueue,
    todo <- AbstractTodo,
    timeouts <- AbstractTimeouts,
    round <- AbstractRound,
    now <- Current_Time

\* The cells do what grt-callbacks.ads says: a round of Call_Callbacks calls,
\* in order and once, the callbacks registered before it that have not been
\* deleted ("Newly appended cells are not executed"), Call_Time_Callbacks the
\* timeouts that are due, and a deleted callback is never called.
ImplementsQueue == Abstract!Spec
=============================================================================

---------------------------- MODULE WebConsole ----------------------------
(***************************************************************************)
(* The console page of the web interface (webUI.cpp): the log buffer that  *)
(* exists while a page asks for it, the lines that any task adds to it     *)
(* under its mutex, and the polls of the pages, each of which is told the  *)
(* index of the line to ask for next.                                      *)
(*                                                                         *)
(* A poll runs on the loop task and calls GetLog once per line, so lines   *)
(* of other tasks come in between.  A line is its number; sizes are in     *)
(* units of the buffer.  The levels (every line has level 1, every poll    *)
(* asks for it) and the first three seconds of uptime are left out.        *)
(***************************************************************************)
EXTENDS Integers, Sequences

CONSTANTS
    Tabs,           \* browser pages that show the console
    LastIndex,      \* 255: after it comes 1, since 0 would end the string
    LOG_BUFFER_SIZE,
    Sizes,          \* of lines
    OtherTasks,     \* TRUE if tasks besides the loop write log lines
    MaxLines, MaxPauses     \* bounds: lines logged; pages put to sleep, restarts

\* What the constants must be (assumed where they get their values).
WebConsoleAssumption ==
    /\ LastIndex \in Nat \ {0} /\ LOG_BUFFER_SIZE \in Nat
    /\ Sizes \subseteq 1..LOG_BUFFER_SIZE
    /\ OtherTasks \in BOOLEAN
    /\ MaxLines \in Nat /\ MaxPauses \in Nat

VARIABLES
    allocated,          \* log_buffer is not null
    log_buffer,         \* its lines, oldest first: index, line, size
    log_buffer_pointer, \* the index of the next line; 0 in a new buffer
    reset_web_log_flag, \* a page has been served since the restart
    tab,                \* per page: id, awake, what it has shown, see TypeOK
    poll,               \* the poll that is served: tab, phase, pointer, index
    lines, pauses

consoleVars == <<allocated, log_buffer, log_buffer_pointer, reset_web_log_flag,
                 tab, poll, lines, pauses>>

NoPoll == [tab |-> "none", phase |-> "none", pointer |-> 0, index |-> 0, told |-> 0]

Init ==
    /\ allocated = FALSE /\ log_buffer = <<>> /\ log_buffer_pointer = 0
    /\ reset_web_log_flag = FALSE
    /\ tab = [t \in Tabs |-> [id |-> 0, awake |-> TRUE, shown |-> {},
                              follows |-> TRUE, told |-> 0]]
    /\ poll = NoPoll
    /\ lines = 0 /\ pauses = 0

\* Mutant of After: the index that comes next has no limit.
AfterUnlimited(i) == i + 1
After(i) == IF i = LastIndex THEN 1 ELSE i + 1

-----------------------------------------------------------------------------
\* AddLogData.  The oldest lines go while the first has the index that comes next
\* or there is no room.

TotalSize(s) == LET sum[i \in 0..Len(s)] == IF i = 0 THEN 0 ELSE sum[i - 1] + s[i].size
                IN  sum[Len(s)]

Room(pointer, size) ==
    LET Suffix(k) == SubSeq(log_buffer, k, Len(log_buffer))
        Fits(k) == /\ k <= Len(log_buffer) => log_buffer[k].index # pointer
                   /\ TotalSize(Suffix(k)) + size <= LOG_BUFFER_SIZE
    IN  Suffix(CHOOSE k \in 1..(Len(log_buffer) + 1) :
                   Fits(k) /\ \A j \in 1..(k - 1) : ~Fits(j))

\* addLog and AddLogData, by the loop unless it is in GetLog, or by another task.
AddLogData(size) ==
    /\ lines < MaxLines
    /\ OtherTasks \/ poll.phase # "getlog"
    /\ lines' = lines + 1
    /\ IF ~allocated THEN UNCHANGED <<log_buffer, log_buffer_pointer>>
       ELSE LET pointer == IF log_buffer_pointer = 0 THEN 1 ELSE log_buffer_pointer
            IN  /\ log_buffer' = Append(Room(pointer, size),
                       [index |-> pointer, line |-> lines + 1, size |-> size])
                /\ log_buffer_pointer' = After(pointer)
    /\ UNCHANGED <<allocated, reset_web_log_flag, tab, poll, pauses>>

-----------------------------------------------------------------------------
\* handleCS, with c2: the buffer is there from now on; a command typed into the
\* page is carried out first (and may log).
PollArrives(t) ==
    /\ poll = NoPoll /\ tab[t].awake
    /\ allocated' = TRUE
    /\ poll' = [NoPoll EXCEPT !.tab = t, !.phase = "command"]
    /\ UNCHANGED <<log_buffer, log_buffer_pointer, reset_web_log_flag, tab, lines, pauses>>

\* The answer names the index that comes next now; the first poll after a restart
\* asks for everything and empties the page.
PollBegins ==
    /\ poll.phase = "command"
    /\ reset_web_log_flag' = TRUE
    /\ poll' = [poll EXCEPT !.phase = "getlog", !.pointer = log_buffer_pointer,
                            !.told = lines,
                            !.index = IF reset_web_log_flag THEN tab[poll.tab].id ELSE 0]
    /\ tab' = [tab EXCEPT ![poll.tab].shown = IF reset_web_log_flag THEN @ ELSE {}]
    /\ UNCHANGED <<allocated, log_buffer, log_buffer_pointer, lines, pauses>>

\* The lines GetLog would come to from an index, counting up until the next one;
\* the position of a line on the way is how often it counts.
Way(from, to) == (to - from) % LastIndex
Asked == IF poll.index = 0 /\ Len(log_buffer) > 0 THEN log_buffer[1].index ELSE poll.index
Ahead == {k \in 1..Len(log_buffer) :
              Way(Asked, log_buffer[k].index) <= Way(After(Asked), log_buffer_pointer)}
Nearest == CHOOSE k \in Ahead : \A j \in Ahead :
              Way(Asked, log_buffer[k].index) <= Way(Asked, log_buffer[j].index)

\* GetLog finds a line.
GetLog ==
    /\ poll.phase = "getlog" /\ poll.index # log_buffer_pointer
    /\ Ahead # {}
    /\ poll' = [poll EXCEPT !.index = After(log_buffer[Nearest].index)]
    /\ tab' = [tab EXCEPT ![poll.tab].shown = @ \cup {log_buffer[Nearest].line}]
    /\ UNCHANGED <<allocated, log_buffer, log_buffer_pointer, reset_web_log_flag, lines,
                   pauses>>

\* GetLog comes to the next index without one.  No index counts up to 0, that of a
\* new buffer: there it goes on until another task has logged a line, whose
\* wait for the mutex ends after 40 ticks.
GetLogEnds == poll.index = log_buffer_pointer \/ (Ahead = {} /\ log_buffer_pointer # 0)

\* Mutant of PollEnds: the page is told the index that comes next at the end.
PollEndsLate ==
    /\ poll.phase = "getlog" /\ GetLogEnds
    /\ tab' = [tab EXCEPT ![poll.tab].id = log_buffer_pointer, ![poll.tab].follows = TRUE,
                          ![poll.tab].told = poll.told]
    /\ poll' = NoPoll
    /\ UNCHANGED <<allocated, log_buffer, log_buffer_pointer, reset_web_log_flag, lines,
                   pauses>>

PollEnds ==
    /\ poll.phase = "getlog" /\ GetLogEnds
    /\ tab' = [tab EXCEPT ![poll.tab].id = poll.pointer, ![poll.tab].follows = TRUE,
                          ![poll.tab].told = poll.told]
    /\ poll' = NoPoll
    /\ UNCHANGED <<allocated, log_buffer, log_buffer_pointer, reset_web_log_flag, lines,
                   pauses>>

-----------------------------------------------------------------------------
\* A page is put to sleep with its computer, and wakes.
Pause(t) ==
    /\ poll = NoPoll /\ pauses < MaxPauses
    /\ tab' = [tab EXCEPT ![t].awake = ~@]
    /\ pauses' = pauses + 1
    /\ UNCHANGED <<allocated, log_buffer, log_buffer_pointer, reset_web_log_flag, poll, lines>>

\* No page sees the lines that come now.
Unfollowed == [t \in Tabs |-> [tab[t] EXCEPT !.follows = FALSE]]

\* After two minutes without a poll.
freeLogBufferIfIdle ==
    /\ poll = NoPoll /\ allocated /\ \A t \in Tabs : ~tab[t].awake
    /\ allocated' = FALSE /\ log_buffer' = <<>> /\ log_buffer_pointer' = 0
    /\ tab' = Unfollowed
    /\ UNCHANGED <<reset_web_log_flag, poll, lines, pauses>>

Restart ==
    /\ pauses < MaxPauses
    /\ pauses' = pauses + 1
    /\ allocated' = FALSE /\ log_buffer' = <<>> /\ log_buffer_pointer' = 0
    /\ reset_web_log_flag' = FALSE
    /\ poll' = NoPoll
    /\ tab' = Unfollowed
    /\ UNCHANGED lines

Next ==
    \/ \E size \in Sizes : AddLogData(size)
    \/ \E t \in Tabs : PollArrives(t) \/ Pause(t)
    \/ PollBegins
    \/ GetLog
    \/ PollEnds
    \/ freeLogBufferIfIdle
    \/ Restart

\* The loop task goes on.
Fairness == WF_consoleVars(PollBegins \/ GetLog \/ PollEnds)

Spec == Init /\ [][Next]_consoleVars
FairSpec == Spec /\ Fairness

-----------------------------------------------------------------------------
TypeOK ==
    /\ allocated \in BOOLEAN /\ reset_web_log_flag \in BOOLEAN
    /\ \A k \in 1..Len(log_buffer) :
          log_buffer[k] \in [index : 1..LastIndex, line : 1..MaxLines, size : Sizes]
    /\ log_buffer_pointer \in 0..LastIndex
    /\ tab \in [Tabs -> [id : 0..LastIndex, awake : BOOLEAN, shown : SUBSET (1..MaxLines),
                         follows : BOOLEAN, told : 0..MaxLines]]
    /\ poll.tab \in Tabs \cup {"none"} /\ poll.phase \in {"none", "command", "getlog"}
    /\ poll.pointer \in 0..LastIndex /\ poll.index \in 0..LastIndex
    /\ poll.told \in 0..MaxLines
    /\ lines \in 0..MaxLines /\ pauses \in 0..MaxPauses

\* A page that has followed this buffer, and whose poll ends before the indices have
\* gone round since its poll before, has every line of the buffer that was logged
\* between the two: no line of another task falls between an answer and the next.
NothingSkipped ==
    [][ \A t \in Tabs :
          PollEnds /\ poll.tab = t /\ tab[t].follows /\ lines - tab[t].told < LastIndex
             => {log_buffer[k].line : k \in 1..Len(log_buffer)}
                   \cap (tab[t].told + 1)..poll.told \subseteq tab[t].shown ]_consoleVars

\* Every poll is answered (webUI.cpp 326, "Index 0 is not allowed").
PollAnswered == poll.phase = "getlog" ~> poll.phase # "getlog"
=============================================================================

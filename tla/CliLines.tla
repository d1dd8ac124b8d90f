------------------------------ MODULE CliLines ------------------------------
(***************************************************************************)
(* The cli adapter's Connect (internal/cli/cli.go): a scanner goroutine    *)
(* reads lines from standard input, which cannot be canceled, and hands    *)
(* each over an unbuffered channel to the loop goroutine, which parses and *)
(* dispatches it before it takes the next.  Disconnect does nothing:       *)
(* core's teardown cancels the context.  The scanner of a connection that  *)
(* is over still waits for a line, and takes it from the next              *)
(* connection's.                                                           *)
(*                                                                         *)
(* Both ends of the channel select on the context too.  Cancelling wakes   *)
(* whoever is parked and whoever comes later finds the context done, so no *)
(* line changes hands after the cancellation.  But a line that the loop    *)
(* has received is dispatched whatever the context says, however late.     *)
(***************************************************************************)
EXTENDS Integers, Sequences

CONSTANTS Conns,  \* connections
          NoConn, \* the bot is not connected
          Lines   \* number of lines typed before the end of the input

\* What the module takes for granted of its parameters; MCSessions assumes it.
CliAssumption == NoConn \notin Conns /\ Lines \in Nat

VARIABLES conn,     \* the connection core has installed
          ctxDone,  \* connections whose context is done
          typed,    \* lines read from the input so far
          scanner,  \* each scanner: "new", "scanning", "holding" a line, "gone"
          line,     \* the line a scanner holds or held last, 0 for none
          takenBy,  \* history: the scanner that read each line
          scanErr,  \* scanners that reported the end of the input
          loop,     \* each loop: "new", "select", "received", "dispatching", "over"
          handling, \* the line a loop has received or dispatches, 0 for none
          eof,      \* connections whose Done reported the end of the input
          log       \* history: lines in the order of their dispatch

vars == <<conn, ctxDone, typed, scanner, line, takenBy, scanErr, loop, handling, eof, log>>
inputVars == <<typed, takenBy>>
loopVars == <<loop, handling, eof, log>>

Init == /\ conn = NoConn
        /\ ctxDone = {}
        /\ typed = 0
        /\ scanner = [c \in Conns |-> "new"]
        /\ line = [c \in Conns |-> 0]
        /\ takenBy = [l \in 1 .. Lines |-> NoConn]
        /\ scanErr = {}
        /\ loop = [c \in Conns |-> "new"]
        /\ handling = [c \in Conns |-> 0]
        /\ eof = {}
        /\ log = <<>>

-----------------------------------------------------------------------------
Connect(c) == /\ conn = NoConn
              /\ scanner[c] = "new"
              /\ conn' = c
              /\ scanner' = [scanner EXCEPT ![c] = "scanning"]
              /\ loop' = [loop EXCEPT ![c] = "select"]
              /\ UNCHANGED <<ctxDone, inputVars, line, scanErr, handling, eof, log>>

\* The caller cancels the context.
Cancel == /\ conn # NoConn
          /\ ctxDone' = ctxDone \cup {conn}
          /\ UNCHANGED <<conn, inputVars, scanner, line, scanErr, loopVars>>

\* core's teardown cancels it, and lets the next Connect begin.
Teardown == /\ conn # NoConn
            /\ ctxDone' = ctxDone \cup {conn}
            /\ conn' = NoConn
            /\ UNCHANGED <<inputVars, scanner, line, scanErr, loopVars>>

\* Scan returns the next line of the input.
ScanLine(c) == /\ scanner[c] = "scanning"
               /\ typed < Lines
               /\ typed' = typed + 1
               /\ takenBy' = [takenBy EXCEPT ![typed'] = c]
               /\ scanner' = [scanner EXCEPT ![c] = "holding"]
               /\ line' = [line EXCEPT ![c] = typed']
               /\ UNCHANGED <<conn, ctxDone, scanErr, loopVars>>

\* The input ends; the scanner leaves word on a channel of its own and ends.
ScanEnds(c) == /\ scanner[c] = "scanning"
               /\ typed = Lines
               /\ scanner' = [scanner EXCEPT ![c] = "gone"]
               /\ scanErr' = scanErr \cup {c}
               /\ UNCHANGED <<conn, ctxDone, inputVars, line, loopVars>>

\* The scanner notices the cancellation and drops the line it holds.
ScannerQuits(c) == /\ scanner[c] = "holding"
                   /\ c \in ctxDone
                   /\ scanner' = [scanner EXCEPT ![c] = "gone"]
                   /\ UNCHANGED <<conn, ctxDone, inputVars, line, scanErr, loopVars>>

\* Fault: the loop takes a line before it looks at its context.
HandOverLate(c) == /\ scanner[c] = "holding"
                   /\ loop[c] = "select"
                   /\ scanner' = [scanner EXCEPT ![c] = "scanning"]
                   /\ loop' = [loop EXCEPT ![c] = "received"]
                   /\ handling' = [handling EXCEPT ![c] = line[c]]
                   /\ UNCHANGED <<conn, ctxDone, inputVars, line, scanErr, eof, log>>

\* The scanner hands its line to the loop.
HandOver(c) == /\ scanner[c] = "holding"
               /\ loop[c] = "select"
               /\ c \notin ctxDone
               /\ scanner' = [scanner EXCEPT ![c] = "scanning"]
               /\ loop' = [loop EXCEPT ![c] = "received"]
               /\ handling' = [handling EXCEPT ![c] = line[c]]
               /\ UNCHANGED <<conn, ctxDone, inputVars, line, scanErr, eof, log>>

\* The loop has parsed the line, which may open files, and dispatches it.
Dispatch(c) == /\ loop[c] = "received"
               /\ log' = Append(log, handling[c])
               /\ loop' = [loop EXCEPT ![c] = "dispatching"]
               /\ UNCHANGED <<conn, ctxDone, inputVars, scanner, line, scanErr, handling, eof>>

\* Dispatch returns.
HandlerReturns(c) == /\ loop[c] = "dispatching"
                     /\ loop' = [loop EXCEPT ![c] = "select"]
                     /\ handling' = [handling EXCEPT ![c] = 0]
                     /\ UNCHANGED <<conn, ctxDone, inputVars, scanner, line, scanErr, eof, log>>

\* Fault: the channel of lines is buffered, and the last line may still be in it.
LoopEndsEarly(c) == /\ loop[c] = "select"
                    /\ c \in ctxDone \/ (typed = Lines /\ scanner[c] = "holding")
                    /\ loop' = [loop EXCEPT ![c] = "over"]
                    /\ eof' = IF c \in ctxDone THEN eof ELSE eof \cup {c}
                    /\ UNCHANGED <<conn, ctxDone, inputVars, scanner, line, scanErr, handling, log>>

\* The loop ends with Done(nil) for its context or Done(err) for the input's end,
\* whichever its select picks.
LoopEnds(c) == /\ loop[c] = "select"
               /\ \/ c \in ctxDone /\ UNCHANGED eof
                  \/ c \in scanErr /\ eof' = eof \cup {c}
               /\ loop' = [loop EXCEPT ![c] = "over"]
               /\ UNCHANGED <<conn, ctxDone, inputVars, scanner, line, scanErr, handling, log>>

-----------------------------------------------------------------------------
LoopStep(c) == Dispatch(c) \/ HandlerReturns(c) \/ LoopEnds(c)

Next == \/ Cancel \/ Teardown
        \/ \E c \in Conns : \/ Connect(c)
                           \/ ScanLine(c) \/ ScanEnds(c) \/ ScannerQuits(c) \/ HandOver(c)
                           \/ LoopStep(c)

Spec == Init /\ [][Next]_vars

-----------------------------------------------------------------------------
(* Properties *)

(* Types of every variable. *)
TypeOK == /\ conn \in Conns \cup {NoConn}
          /\ ctxDone \subseteq Conns
          /\ typed \in 0 .. Lines
          /\ scanner \in [Conns -> {"new", "scanning", "holding", "gone"}]
          /\ line \in [Conns -> 0 .. Lines]
          /\ takenBy \in [1 .. Lines -> Conns \cup {NoConn}]
          /\ scanErr \subseteq Conns
          /\ loop \in [Conns -> {"new", "select", "received", "dispatching", "over"}]
          /\ handling \in [Conns -> 0 .. Lines]
          /\ eof \subseteq scanErr
          /\ log \in Seq(1 .. Lines)

(* Lines are dispatched at most once and in the order they were typed, but for    *)
(* one line of each canceled connection: the last one its loop received, which    *)
(* may come after later lines of the connections that followed.  cli.go:57: "a    *)
(* line read after cancellation is dropped rather than dispatched".               *)
LinesInOrder ==
    \A i, j \in 1 .. Len(log) : i < j =>
        \/ log[i] < log[j]
        \/ /\ log[j] < log[i]
           /\ takenBy[log[j]] \in ctxDone
           /\ takenBy[log[i]] # takenBy[log[j]]
           /\ \A k \in 1 .. Len(log) : j < k => takenBy[log[k]] # takenBy[log[j]]

(* Only a cancellation loses a line: a bot that ends because its input ended has  *)
(* dispatched every line its scanner read.                                        *)
EofAfterLines == \A c \in eof : \A l \in 1 .. Lines :
                    takenBy[l] = c => \E i \in 1 .. Len(log) : log[i] = l
=============================================================================

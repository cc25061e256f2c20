------------------------ MODULE ToolReductionProofs ------------------------
(***************************************************************************)
(* What holds of the reduction of tool results for every number of         *)
(* workers, calls and requests, every answer and every fault.              *)
(***************************************************************************)
EXTENDS ToolReduction, SubsequencesProofs, TLAPS

-----------------------------------------------------------------------------
(* Where the workers can be and what they carry.                           *)

Pending(t) == t.origin \in {"not_run", "running"}
Replaced(t) == t = Original \/ IsMarker(t)

WorkersInv ==
  /\ now \in Nat
  /\ pc \in [Workers -> Labels]
  /\ job \in [Workers -> Jobs]
  /\ \A w \in Workers :
       /\ Replaced(job[w].text)
       /\ pc[w] = "idle" <=> job[w].surface = "none"
       /\ pc[w] = "next" => job[w].surface = "request"
       /\ pc[w] \notin {"idle", "next"} => job[w].call \in Calls
       /\ pc[w] = "report" => IsMarker(job[w].text)

LEMMA TextTypes ==
  /\ Original \in Texts /\ Replaced(Original) /\ ~IsMarker(Original)
  /\ ~IsMarker(NotRun) /\ ~IsMarker(Running)
  /\ NotRun # Running /\ NotRun # Original /\ Running # Original
  /\ Pending(NotRun) /\ Pending(Running)
  /\ \A t \in Texts : Replaced(t) => ~Pending(t)
  /\ \A n \in Nat : Text("ccr", n) \in Texts /\ Text("local", n) \in Texts
  /\ \A n \in Nat : IsMarker(Text("ccr", n)) /\ IsMarker(Text("local", n))
BY DEF Original, NotRun, Running, Text, Texts, IsMarker, Replaced, Pending

LEMMA NoJobType == NoJob \in Jobs
BY TextTypes DEF NoJob, Jobs, Surfaces, AllOutcomes

\* What each step of an attempt but the last makes of the worker's job.
LEMMA AttemptJob ==
  ASSUME WorkersInv, NEW w \in Workers,
         \/ Gate(w) \/ Ready(w) \/ WriteSource(w) \/ Compress(w)
         \/ CompressFails(w) \/ Synthesize(w) \/ NotUseful(w) \/ KeepSource(w)
  PROVE  \E j \in Jobs :
           /\ job' = [job EXCEPT ![w] = j]
           /\ j.surface = job[w].surface /\ j.call = job[w].call
           /\ j.todo = job[w].todo
           /\ Replaced(j.text)
           /\ pc'[w] = "report" => IsMarker(j.text)
<1>0. /\ job[w] \in Jobs /\ job \in [Workers -> Jobs] /\ now \in Nat
      /\ Replaced(job[w].text)
      /\ pc \in [Workers -> Labels]
      /\ job[w].stamp \in Nat
  BY DEF WorkersInv, Jobs
<1>1. ASSUME NEW t \in Texts, Replaced(t), job' = [job EXCEPT ![w].text = t],
             pc'[w] = "report" => IsMarker(t)
      PROVE  \E j \in Jobs :
               /\ job' = [job EXCEPT ![w] = j]
               /\ j.surface = job[w].surface /\ j.call = job[w].call
               /\ j.todo = job[w].todo
               /\ Replaced(j.text)
               /\ pc'[w] = "report" => IsMarker(j.text)
  <2>1. [job[w] EXCEPT !.text = t] \in Jobs
    BY <1>0, <1>1 DEF Jobs
  <2>2. [job[w] EXCEPT !.text = t].text = t
    BY <1>0 DEF Jobs
  <2>. QED
    BY <1>0, <1>1, <2>1, <2>2 DEF Jobs
<1>2. ASSUME UNCHANGED job, pc'[w] = "report" => IsMarker(job[w].text)
      PROVE  \E j \in Jobs :
               /\ job' = [job EXCEPT ![w] = j]
               /\ j.surface = job[w].surface /\ j.call = job[w].call
               /\ j.todo = job[w].todo
               /\ Replaced(j.text)
               /\ pc'[w] = "report" => IsMarker(j.text)
  BY <1>0, <1>2
<1>3. ASSUME Settle(w, Original)
      PROVE  job' = [job EXCEPT ![w].text = Original] /\ pc'[w] # "report"
  BY <1>0, <1>3 DEF Settle, Goto
<1>4. CASE Gate(w)
  BY <1>0, <1>1, <1>2, <1>3, <1>4, TextTypes DEF Gate, Goto
<1>5. CASE Ready(w)
  BY <1>0, <1>1, <1>2, <1>3, <1>5, TextTypes DEF Ready, Goto
<1>6. CASE WriteSource(w)
  <2>1. [job[w] EXCEPT !.stamp = now] \in Jobs
    BY <1>0 DEF Jobs
  <2>. QED
    BY <1>0, <1>6, <2>1 DEF Jobs, WriteSource, Goto
<1>7. CASE Compress(w)
  <2>1. PICK o \in Outcomes : job' = [job EXCEPT ![w].outcome = o]
    BY <1>7 DEF Compress
  <2>2. [job[w] EXCEPT !.outcome = o] \in Jobs
    BY <1>0, ReductionAssumption DEF Jobs
  <2>. QED
    BY <1>0, <1>7, <2>1, <2>2 DEF Jobs, Compress, Goto
<1>8. CASE CompressFails(w)
  BY <1>0, <1>1, <1>3, <1>8, TextTypes DEF CompressFails
<1>9. CASE Synthesize(w)
  <2>1. pc'[w] # "report"
    BY <1>0, <1>9 DEF Synthesize, Goto
  <2>2. CASE UNCHANGED job
    BY <1>2, <2>1, <2>2
  <2>3. CASE Retained(w, "local")
    BY <1>0, <1>1, <2>1, <2>3, TextTypes DEF Retained, Replaced
  <2>4. CASE NotRetained(w, Original)
    BY <1>1, <2>1, <2>4, TextTypes DEF NotRetained
  <2>. QED
    BY <1>9, <2>2, <2>3, <2>4 DEF Synthesize
<1>10. CASE NotUseful(w)
  BY <1>0, <1>1, <1>3, <1>10, TextTypes DEF NotUseful
<1>11. CASE KeepSource(w)
  <2>1. CASE IsMarker(job[w].text) /\ UNCHANGED job
    BY <1>2, <2>1
  <2>2. CASE Retained(w, "ccr")
    BY <1>0, <1>1, <2>2, TextTypes DEF Retained, Replaced
  <2>3. CASE NotRetained(w, Text("ccr", job[w].stamp))
    BY <1>0, <1>1, <2>3, TextTypes DEF NotRetained, Replaced
  <2>. QED
    BY <1>11, <2>1, <2>2, <2>3 DEF KeepSource
<1>. QED
  BY <1>4, <1>5, <1>6, <1>7, <1>8, <1>9, <1>10, <1>11

\* A worker's step that leaves its job in one of the shapes above.
LEMMA WorkerMoves ==
  ASSUME WorkersInv, NEW w \in Workers, NEW j \in Jobs, NEW l \in Labels,
         job' = [job EXCEPT ![w] = j], pc' = [pc EXCEPT ![w] = l], now' = now,
         Replaced(j.text), l = "idle" <=> j.surface = "none",
         l = "next" => j.surface = "request",
         l \notin {"idle", "next"} => j.call \in Calls,
         l = "report" => IsMarker(j.text)
  PROVE  WorkersInv'
BY DEF WorkersInv

LEMMA AttemptMoves ==
  ASSUME WorkersInv, NEW w \in Workers,
         \/ Gate(w) \/ Ready(w) \/ WriteSource(w) \/ Compress(w)
         \/ CompressFails(w) \/ Synthesize(w) \/ NotUseful(w) \/ KeepSource(w)
  PROVE  /\ WorkersInv'
         /\ pc[w] \notin {"idle", "next", "deliver"}
         /\ UNCHANGED <<now, conv, logged, savings>>
         /\ \E j \in Jobs, l \in Labels \ {"idle", "next"} :
              /\ job' = [job EXCEPT ![w] = j] /\ pc' = [pc EXCEPT ![w] = l]
              /\ j.surface = job[w].surface /\ j.call = job[w].call
              /\ j.todo = job[w].todo
<1>1. PICK j \in Jobs :
        /\ job' = [job EXCEPT ![w] = j]
        /\ j.surface = job[w].surface /\ j.call = job[w].call
        /\ j.todo = job[w].todo
        /\ Replaced(j.text)
        /\ pc'[w] = "report" => IsMarker(j.text)
  BY AttemptJob
<1>2. /\ pc[w] \notin {"idle", "next", "deliver"}
      /\ UNCHANGED <<now, conv, logged, savings>>
  BY DEF Gate, Ready, WriteSource, Compress, CompressFails, Synthesize,
         NotUseful, KeepSource, ledger
<1>3. PICK l \in Labels \ {"idle", "next"} : pc' = [pc EXCEPT ![w] = l]
  BY DEF Gate, Ready, WriteSource, Compress, CompressFails, Synthesize,
         NotUseful, KeepSource, Goto, Settle, Labels
<1>4. pc'[w] = l
  BY <1>3 DEF WorkersInv
<1>5. WorkersInv'
  BY <1>1, <1>2, <1>3, <1>4, WorkerMoves DEF WorkersInv
<1>. QED
  BY <1>1, <1>2, <1>3, <1>5

LEMMA EntryMoves ==
  ASSUME WorkersInv, NEW w \in Workers,
         (\E c \in Calls : ToolExecution(w, c)) \/ LlmRequest(w)
           \/ NextResult(w) \/ SendRequest(w)
  PROVE  WorkersInv'
<1>1. CASE \E c \in Calls : ToolExecution(w, c)
  <2>1. PICK c \in Calls : ToolExecution(w, c)
    BY <1>1
  <2>. DEFINE j == [NoJob EXCEPT !.call = c, !.surface = "tool"]
  <2>2. j \in Jobs /\ j.surface = "tool" /\ j.call = c /\ Replaced(j.text)
    BY NoJobType, TextTypes DEF NoJob, Jobs, Surfaces
  <2>3. /\ job' = [job EXCEPT ![w] = j] /\ pc' = [pc EXCEPT ![w] = "gate"]
        /\ now' = now
    BY <2>1 DEF ToolExecution, Goto
  <2>. HIDE DEF j
  <2>. QED
    BY <2>2, <2>3, WorkerMoves DEF Labels
<1>2. CASE LlmRequest(w)
  <2>. DEFINE S == {c \in Calls : conv[c] \notin {NotRun, Running}}
              j == [NoJob EXCEPT !.surface = "request", !.todo = S]
  <2>1. j \in Jobs /\ j.surface = "request" /\ Replaced(j.text)
    BY NoJobType, TextTypes DEF NoJob, Jobs, Surfaces
  <2>2. /\ job' = [job EXCEPT ![w] = j] /\ pc' = [pc EXCEPT ![w] = "next"]
        /\ now' = now
    BY <1>2 DEF LlmRequest, Goto
  <2>. HIDE DEF j
  <2>. QED
    BY <2>1, <2>2, WorkerMoves DEF Labels
<1>3. CASE NextResult(w)
  <2>1. PICK c \in job[w].todo :
          /\ job' = [job EXCEPT ![w].todo = @ \ {c}, ![w].call = c]
          /\ pc' = pc \/ pc' = [pc EXCEPT ![w] = "gate"]
    BY <1>3 DEF NextResult, Goto
  <2>. DEFINE j == [job[w] EXCEPT !.todo = @ \ {c}, !.call = c]
  <2>2. /\ job[w] \in Jobs /\ job[w].surface = "request" /\ c \in Calls
        /\ pc[w] = "next" /\ now' = now /\ Replaced(job[w].text)
    BY <1>3 DEF NextResult, WorkersInv, Jobs
  <2>3. j \in Jobs /\ j.surface = "request" /\ j.call = c /\ j.text = job[w].text
    BY <2>2 DEF Jobs
  <2>4. job' = [job EXCEPT ![w] = j]
    BY <2>1, <2>2 DEF Jobs, WorkersInv
  <2>5. PICK l \in {"next", "gate"} : pc' = [pc EXCEPT ![w] = l]
    BY <2>1, <2>2 DEF WorkersInv
  <2>. HIDE DEF j
  <2>. QED
    BY <2>2, <2>3, <2>4, <2>5, WorkerMoves DEF Labels
<1>4. CASE SendRequest(w)
  <2>1. /\ job' = [job EXCEPT ![w] = NoJob] /\ pc' = [pc EXCEPT ![w] = "idle"]
        /\ now' = now
    BY <1>4 DEF SendRequest, Goto
  <2>2. NoJob.surface = "none" /\ Replaced(NoJob.text)
    BY TextTypes DEF NoJob
  <2>. QED
    BY <2>1, <2>2, NoJobType, WorkerMoves DEF Labels
<1>. QED
  BY <1>1, <1>2, <1>3, <1>4

LEMMA ExitMoves ==
  ASSUME WorkersInv, NEW w \in Workers, Report(w) \/ Deliver(w) \/ WriteFails(w)
  PROVE  WorkersInv'
<1>0. NoJob.surface = "none" /\ Replaced(NoJob.text)
  BY TextTypes DEF NoJob
<1>1. CASE Report(w)
  <2>1. /\ UNCHANGED <<now, job>> /\ pc' = [pc EXCEPT ![w] = "deliver"]
        /\ pc[w] = "report"
    BY <1>1 DEF Report, Goto
  <2>. QED
    BY <2>1 DEF WorkersInv, Labels
<1>2. CASE WriteFails(w) \/ (Deliver(w) /\ job[w].surface = "tool")
  <2>1. /\ job' = [job EXCEPT ![w] = NoJob] /\ pc' = [pc EXCEPT ![w] = "idle"]
        /\ now' = now
    BY <1>2 DEF WriteFails, Deliver, Goto
  <2>. QED
    BY <1>0, <2>1, NoJobType, WorkerMoves DEF Labels
<1>3. CASE Deliver(w) /\ job[w].surface = "request"
  <2>. DEFINE j == [NoJob EXCEPT !.surface = "request", !.todo = job[w].todo]
  <2>1. /\ job' = [job EXCEPT ![w] = j] /\ pc' = [pc EXCEPT ![w] = "next"]
        /\ now' = now
    BY <1>3 DEF Deliver, Goto
  <2>2. j \in Jobs /\ j.surface = "request" /\ Replaced(j.text)
    BY NoJobType, TextTypes DEF WorkersInv, Jobs, Surfaces, NoJob
  <2>. HIDE DEF j
  <2>. QED
    BY <2>1, <2>2, WorkerMoves DEF Labels
<1>. QED
  BY <1>1, <1>2, <1>3 DEF Deliver

LEMMA WorkersStep == WorkersInv /\ [Next]_vars => WorkersInv'
<1>. SUFFICES ASSUME WorkersInv, [Next]_vars PROVE WorkersInv'
  OBVIOUS
<1>1. CASE Tick \/ ProviderStops \/ ProviderStarts \/ UNCHANGED vars
  <2>1. UNCHANGED <<pc, job>> /\ now' \in Nat
    BY <1>1 DEF Tick, ProviderStops, ProviderStarts, vars, WorkersInv
  <2>. QED
    BY <2>1 DEF WorkersInv
<1>2. CASE ProcessRestarts
  BY <1>2, NoJobType, TextTypes DEF ProcessRestarts, WorkersInv, NoJob, Labels
<1>. QED
  BY <1>1, <1>2, AttemptMoves, EntryMoves, ExitMoves DEF Next, Work, Attempt

LEMMA InitWorkers == Init => WorkersInv
BY NoJobType, TextTypes DEF Init, WorkersInv, Labels, NoJob

-----------------------------------------------------------------------------
(* The inductive invariant behind CountedOnce.  A source is counted by the *)
(* attempt of its tool execution, of which there is one, or by attempts at *)
(* the request boundary, which are made only when the first left the       *)
(* result as it was, and therefore uncounted; among these the log decides. *)

AtTool(w, c) == job[w].surface = "tool" /\ job[w].call = c
AtRequest(w, c) ==
  job[w].surface = "request" /\ pc[w] # "next" /\ job[w].call = c

\* What stands in the conversation while the workers are where they are.
ConvInv ==
  /\ DOMAIN conv = Calls
  /\ \A c \in Calls : conv[c] \in {NotRun, Running} \/ Replaced(conv[c])
  /\ \A w \in Workers :
       /\ \A c \in job[w].todo : ~Pending(conv[c])
       /\ \A c \in Calls :
            /\ AtTool(w, c) => conv[c] = Running
            /\ AtRequest(w, c) => conv[c] = Original
            /\ \A v \in Workers : AtTool(v, c) /\ AtTool(w, c) => v = w

\* What has been counted by then.
SavingsInv ==
  /\ savings \in [Calls -> {0, 1}]
  /\ \A c \in Calls :
       /\ conv[c] = NotRun => savings[c] = 0
       /\ conv[c] = Original /\ c \notin logged => savings[c] = 0
       /\ \A w \in Workers : AtTool(w, c) =>
            savings[c] = 0 \/ (pc[w] = "deliver" /\ IsMarker(job[w].text))

CountInv == ConvInv /\ SavingsInv

LEMMA InitCount == Init => CountInv
BY DEF Init, CountInv, ConvInv, SavingsInv, AtTool, AtRequest, NoJob

LEMMA AttemptCount ==
  ASSUME WorkersInv, CountInv, NEW w \in Workers,
         \/ Gate(w) \/ Ready(w) \/ WriteSource(w) \/ Compress(w)
         \/ CompressFails(w) \/ Synthesize(w) \/ NotUseful(w) \/ KeepSource(w)
  PROVE  CountInv'
<1>1. PICK j \in Jobs, l \in Labels \ {"idle", "next"} :
        /\ job' = [job EXCEPT ![w] = j] /\ pc' = [pc EXCEPT ![w] = l]
        /\ j.surface = job[w].surface /\ j.call = job[w].call
        /\ j.todo = job[w].todo
  BY AttemptMoves
<1>2. /\ pc[w] \notin {"idle", "next", "deliver"}
      /\ UNCHANGED <<now, conv, logged, savings>>
  BY AttemptMoves
<1>3. ConvInv'
  BY <1>1, <1>2 DEF WorkersInv, CountInv, ConvInv, AtTool, AtRequest
<1>4. SavingsInv'
  BY <1>1, <1>2 DEF WorkersInv, CountInv, SavingsInv, AtTool
<1>. QED
  BY <1>3, <1>4 DEF CountInv

LEMMA ReportCount ==
  ASSUME WorkersInv, CountInv, NEW w \in Workers, Report(w)
  PROVE  CountInv'
<1>. DEFINE c == job[w].call
<1>1. /\ c \in Calls
      /\ UNCHANGED <<now, conv, job>>
      /\ pc' = [pc EXCEPT ![w] = "deliver"] /\ pc[w] = "report"
      /\ IsMarker(job[w].text)
  BY DEF Report, Goto, CountInv, WorkersInv
<1>2. ConvInv'
  BY <1>1 DEF WorkersInv, CountInv, ConvInv, AtTool, AtRequest
<1>3. CASE Savings(w, c) /\ job[w].surface = "tool"
  <2>1. /\ savings' = [savings EXCEPT ![c] = @ + 1] /\ logged' = logged
        /\ savings[c] = 0 /\ conv[c] = Running
    BY <1>1, <1>3 DEF Savings, CountInv, SavingsInv, ConvInv, AtTool
  <2>2. \A v \in Workers : AtTool(v, c) => v = w
    BY <1>1, <1>3 DEF CountInv, ConvInv, AtTool
  <2>. QED
    BY <1>1, <1>2, <1>3, <2>1, <2>2, TextTypes
    DEF WorkersInv, CountInv, SavingsInv, AtTool
<1>4. CASE Savings(w, c) /\ job[w].surface = "request"
  <2>1. /\ conv[c] = Original
        /\ c \in logged => savings' = savings
        /\ c \notin logged => savings' = [savings EXCEPT ![c] = @ + 1]
                              /\ savings[c] = 0
        /\ logged' = logged \cup {c}
    BY <1>1, <1>4 DEF Savings, CountInv, SavingsInv, ConvInv, AtRequest
  <2>2. \A v \in Workers : ~AtTool(v, c)
    BY <1>1, <2>1, TextTypes DEF CountInv, ConvInv
  <2>. QED
    BY <1>1, <1>2, <2>1, <2>2, TextTypes
    DEF WorkersInv, CountInv, SavingsInv, AtTool
<1>5. CASE UNCHANGED <<logged, savings>>
  <2>1. SavingsInv'
    BY <1>1, <1>5 DEF WorkersInv, CountInv, SavingsInv, AtTool
  <2>. QED
    BY <1>2, <2>1 DEF CountInv
<1>. QED
  BY <1>3, <1>4, <1>5 DEF Report, Savings

LEMMA DeliverCount ==
  ASSUME WorkersInv, CountInv, NEW w \in Workers, Deliver(w)
  PROVE  CountInv'
<1>. DEFINE c == job[w].call
            t == job[w].text
<1>1. /\ c \in Calls /\ Replaced(t) /\ t \in Texts
      /\ pc[w] = "deliver"
      /\ UNCHANGED <<now, logged, savings>>
  BY DEF Deliver, CountInv, WorkersInv, Jobs, ledger
<1>2. CASE job[w].surface = "tool"
  <2>1. /\ conv' = [conv EXCEPT ![c] = t]
        /\ job' = [job EXCEPT ![w] = NoJob]
        /\ pc' = [pc EXCEPT ![w] = "idle"]
    BY <1>2 DEF Deliver, Goto
  <2>2. /\ conv[c] = Running
        /\ savings[c] = 0 \/ IsMarker(t)
        /\ \A v \in Workers : AtTool(v, c) => v = w
        /\ \A v \in Workers : ~AtRequest(v, c)
        /\ ~Pending(t) /\ conv'[c] = t
    BY <1>1, <1>2, <2>1, TextTypes
    DEF CountInv, SavingsInv, ConvInv, AtTool
  <2>3. ConvInv'
    BY <1>1, <2>1, <2>2 DEF WorkersInv, CountInv, ConvInv, AtTool, AtRequest, NoJob
  <2>4. SavingsInv'
    BY <1>1, <2>1, <2>2, TextTypes
    DEF WorkersInv, CountInv, ConvInv, SavingsInv, AtTool, NoJob, Replaced
  <2>. QED
    BY <2>3, <2>4 DEF CountInv
<1>3. CASE job[w].surface = "request"
  <2>. DEFINE j == [NoJob EXCEPT !.surface = "request", !.todo = job[w].todo]
  <2>1. /\ conv' = conv
        /\ job' = [job EXCEPT ![w] = j]
        /\ pc' = [pc EXCEPT ![w] = "next"]
    BY <1>3 DEF Deliver, Goto
  <2>2. j \in Jobs /\ j.surface = "request" /\ j.todo = job[w].todo
        /\ Replaced(j.text)
    BY NoJobType, TextTypes DEF WorkersInv, CountInv, Jobs, Surfaces, NoJob
  <2>. HIDE DEF j
  <2>3. ConvInv'
    BY <1>1, <2>1, <2>2 DEF WorkersInv, CountInv, ConvInv, AtTool, AtRequest
  <2>4. SavingsInv'
    BY <1>1, <2>1, <2>2 DEF WorkersInv, CountInv, SavingsInv, AtTool
  <2>. QED
    BY <2>3, <2>4 DEF CountInv
<1>. QED
  BY <1>2, <1>3 DEF Deliver

LEMMA WriteFailsCount ==
  ASSUME WorkersInv, CountInv, NEW w \in Workers, WriteFails(w)
  PROVE  CountInv'
<1>. DEFINE c == job[w].call
<1>1. /\ c \in Calls
      /\ pc[w] \notin {"idle", "next", "deliver"}
      /\ UNCHANGED <<now, logged, savings>>
      /\ job' = [job EXCEPT ![w] = NoJob]
      /\ pc' = [pc EXCEPT ![w] = "idle"]
  BY DEF WriteFails, Goto, CountInv, WorkersInv, ledger
<1>2. CASE job[w].surface = "tool"
  <2>1. /\ conv' = [conv EXCEPT ![c] = Original]
        /\ conv[c] = Running /\ savings[c] = 0
        /\ \A v \in Workers : AtTool(v, c) => v = w
        /\ \A v \in Workers : ~AtRequest(v, c)
    BY <1>1, <1>2, TextTypes DEF WriteFails, CountInv, ConvInv, SavingsInv, AtTool
  <2>2. ConvInv'
    BY <1>1, <2>1, TextTypes
    DEF WorkersInv, CountInv, ConvInv, AtTool, AtRequest, NoJob
  <2>3. SavingsInv'
    BY <1>1, <2>1, TextTypes
    DEF WorkersInv, CountInv, ConvInv, SavingsInv, AtTool, NoJob
  <2>. QED
    BY <2>2, <2>3 DEF CountInv
<1>3. CASE job[w].surface = "request"
  <2>1. conv' = conv
    BY <1>3 DEF WriteFails
  <2>2. ConvInv'
    BY <1>1, <2>1 DEF WorkersInv, CountInv, ConvInv, AtTool, AtRequest, NoJob
  <2>3. SavingsInv'
    BY <1>1, <2>1 DEF WorkersInv, CountInv, SavingsInv, AtTool, NoJob
  <2>. QED
    BY <2>2, <2>3 DEF CountInv
<1>. QED
  BY <1>2, <1>3 DEF WriteFails

LEMMA ToolExecutionCount ==
  ASSUME WorkersInv, CountInv, NEW w \in Workers, NEW c \in Calls, ToolExecution(w, c)
  PROVE  CountInv'
<1>. DEFINE j == [NoJob EXCEPT !.call = c, !.surface = "tool"]
<1>1. /\ pc[w] = "idle" /\ conv[c] = NotRun
      /\ conv' = [conv EXCEPT ![c] = Running]
      /\ job' = [job EXCEPT ![w] = j]
      /\ pc' = [pc EXCEPT ![w] = "gate"]
      /\ UNCHANGED <<now, logged, savings>>
  BY DEF ToolExecution, Goto, ledger
<1>2. /\ j \in Jobs /\ j.surface = "tool" /\ j.call = c /\ j.todo = {}
      /\ Replaced(j.text)
  BY NoJobType, TextTypes DEF NoJob, Jobs, Surfaces
<1>. HIDE DEF j
<1>3. /\ \A v \in Workers : ~AtTool(v, c) /\ ~AtRequest(v, c)
      /\ \A v \in Workers : c \notin job[v].todo
      /\ savings[c] = 0
  BY <1>1, TextTypes DEF CountInv, ConvInv, SavingsInv
<1>4. ConvInv'
  BY <1>1, <1>2, <1>3, TextTypes DEF WorkersInv, CountInv, ConvInv, AtTool, AtRequest
<1>5. SavingsInv'
  BY <1>1, <1>2, <1>3, TextTypes DEF WorkersInv, CountInv, ConvInv, SavingsInv, AtTool
<1>. QED
  BY <1>4, <1>5 DEF CountInv

\* A step of a worker between two attempts, or of a worker that ends or
\* starts a request: only its job changes.
LEMMA Elsewhere ==
  ASSUME WorkersInv, CountInv, NEW w \in Workers, NEW j \in Jobs, NEW l \in Labels,
         pc[w] \in {"idle", "next"},
         job' = [job EXCEPT ![w] = j], pc' = [pc EXCEPT ![w] = l],
         UNCHANGED <<now, conv, logged, savings>>,
         Replaced(j.text), j.surface \in {"none", "request"},
         l = "idle" <=> j.surface = "none",
         \A c \in j.todo : ~Pending(conv[c]),
         l \in {"idle", "next"}
           \/ (l = "gate" /\ j.call \in Calls /\ conv[j.call] = Original)
  PROVE  CountInv'
<1>1. ConvInv'
  BY DEF WorkersInv, CountInv, ConvInv, AtTool, AtRequest
<1>2. SavingsInv'
  BY DEF WorkersInv, CountInv, SavingsInv, AtTool
<1>. QED
  BY <1>1, <1>2 DEF CountInv

LEMMA LlmRequestCount ==
  ASSUME WorkersInv, CountInv, NEW w \in Workers, LlmRequest(w)
  PROVE  CountInv'
<1>. DEFINE S == {c \in Calls : conv[c] \notin {NotRun, Running}}
            j == [NoJob EXCEPT !.surface = "request", !.todo = S]
<1>1. /\ pc[w] = "idle"
      /\ job' = [job EXCEPT ![w] = j]
      /\ pc' = [pc EXCEPT ![w] = "next"]
      /\ UNCHANGED <<now, conv, logged, savings>>
  BY DEF LlmRequest, Goto, ledger
<1>2. /\ j \in Jobs /\ j.surface = "request" /\ j.todo = S /\ Replaced(j.text)
  BY NoJobType, TextTypes DEF NoJob, Jobs, Surfaces
<1>3. \A c \in S : ~Pending(conv[c])
  BY DEF CountInv, ConvInv, Replaced, IsMarker, Original, Text, Pending
<1>. HIDE DEF j, S
<1>. QED
  BY <1>1, <1>2, <1>3, Elsewhere DEF Labels

LEMMA SendRequestCount ==
  ASSUME WorkersInv, CountInv, NEW w \in Workers, SendRequest(w)
  PROVE  CountInv'
<1>1. /\ pc[w] = "next"
      /\ job' = [job EXCEPT ![w] = NoJob]
      /\ pc' = [pc EXCEPT ![w] = "idle"]
      /\ UNCHANGED <<now, conv, logged, savings>>
  BY DEF SendRequest, Goto, ledger
<1>2. NoJob \in Jobs /\ Replaced(NoJob.text) /\ NoJob.surface = "none"
      /\ NoJob.todo = {}
  BY NoJobType, TextTypes DEF NoJob
<1>. QED
  BY <1>1, <1>2, Elsewhere DEF Labels

\* The one place that needs every marker to be recognized: an attempt at the
\* request boundary is made on a result that was left as it was.
LEMMA NextResultCount ==
  ASSUME Buried = {}, WorkersInv, CountInv, NEW w \in Workers, NextResult(w)
  PROVE  CountInv'
<1>1. PICK c \in job[w].todo :
        /\ job' = [job EXCEPT ![w].todo = @ \ {c}, ![w].call = c]
        /\ \/ pc' = pc
           \/ ~AlreadyCompressed(c) /\ pc' = [pc EXCEPT ![w] = "gate"]
  BY DEF NextResult, Goto
<1>. DEFINE j == [job[w] EXCEPT !.todo = @ \ {c}, !.call = c]
<1>2. /\ pc[w] = "next" /\ UNCHANGED <<now, conv, logged, savings>>
  BY DEF NextResult, ledger
<1>3. /\ job[w] \in Jobs /\ Replaced(job[w].text) /\ job[w].surface = "request"
      /\ c \in Calls /\ \A d \in job[w].todo : ~Pending(conv[d])
  BY <1>2 DEF WorkersInv, CountInv, ConvInv, Jobs
<1>4. /\ j \in Jobs /\ j.text = job[w].text /\ j.surface = "request"
      /\ j.todo = job[w].todo \ {c} /\ j.call = c
  BY <1>3 DEF Jobs
<1>5. job' = [job EXCEPT ![w] = j]
  BY <1>1, <1>3 DEF Jobs, CountInv, WorkersInv
<1>. HIDE DEF j
<1>6. CASE pc' = pc
  <2>1. pc' = [pc EXCEPT ![w] = "next"]
    BY <1>2, <1>6 DEF WorkersInv, CountInv
  <2>. QED
    BY <1>2, <1>3, <1>4, <1>5, <2>1, Elsewhere DEF Labels
<1>7. CASE ~AlreadyCompressed(c) /\ pc' = [pc EXCEPT ![w] = "gate"]
  <2>1. conv[c] = Original
    BY <1>3, <1>7, TextTypes
    DEF AlreadyCompressed, CountInv, ConvInv, Replaced
  <2>. QED
    BY <1>2, <1>3, <1>4, <1>5, <1>7, <2>1, Elsewhere DEF Labels
<1>. QED
  BY <1>1, <1>6, <1>7

LEMMA EnvironmentCount ==
  ASSUME WorkersInv, CountInv, Tick \/ ProviderStops \/ ProviderStarts \/ UNCHANGED vars
  PROVE  CountInv'
<1>1. UNCHANGED <<conv, pc, job, logged, savings>> /\ now' \in Nat
  BY DEF Tick, ProviderStops, ProviderStarts, vars, ledger, CountInv, WorkersInv
<1>. QED
  BY <1>1 DEF WorkersInv, CountInv, ConvInv, SavingsInv, AtTool, AtRequest

\* After a restart no worker is left; what was counted stays counted.
LEMMA RestartCount ==
  ASSUME WorkersInv, CountInv, ProcessRestarts
  PROVE  CountInv'
<1>1. /\ pc' = [v \in Workers |-> "idle"]
      /\ job' = [v \in Workers |-> NoJob]
      /\ UNCHANGED <<now, conv, logged, savings>>
  BY DEF ProcessRestarts
<1>2. ConvInv'
  BY <1>1 DEF CountInv, ConvInv, AtTool, AtRequest, NoJob
<1>3. SavingsInv'
  BY <1>1 DEF CountInv, SavingsInv, AtTool, NoJob
<1>. QED
  BY <1>2, <1>3 DEF CountInv

LEMMA CountStep ==
  ASSUME Buried = {}, WorkersInv, CountInv, [Next]_vars
  PROVE  CountInv'
BY AttemptCount, ReportCount, DeliverCount, WriteFailsCount,
   ToolExecutionCount, LlmRequestCount, SendRequestCount, NextResultCount,
   EnvironmentCount, RestartCount
DEF Next, Work, Attempt

\* CountedOnce for every session: if no marker is buried, a source counts at
\* most once as new savings, over both surfaces (middleware_tool.py:39,
\* middleware_request.py:416), whatever the caches evict, however many
\* requests run at once and however often the process restarts.
THEOREM NeverCountedTwice ==
  ASSUME Buried = {}
  PROVE  Spec => []CountedOnce
<1>1. CountInv => CountedOnce
  BY DEF CountInv, SavingsInv, CountedOnce
<1>2. WorkersInv /\ CountInv /\ [Next]_vars => WorkersInv' /\ CountInv'
  BY WorkersStep, CountStep
<1>. QED
  BY <1>1, <1>2, InitWorkers, InitCount, PTL DEF Spec

-----------------------------------------------------------------------------
(* The inductive invariant behind BlockedStaysHere: from the step that     *)
(* writes the first file on, a worker is only at calls that may pass, and  *)
(* so are all markers, wherever they are kept.                             *)

Allowed(c) == ~Withheld(c)
Reducing == {"source", "compress", "synthesize", "judge", "report"}

\* Texts in a copy of the conversation.
CopyInv(texts) ==
  \A c \in Calls : c \in DOMAIN texts /\ IsMarker(texts[c]) => Allowed(c)

CacheEntry == [call : Calls, text : Texts]
CacheInv ==
  /\ cache \in Seq(CacheEntry)
  /\ \A e \in Entries(cache) : Allowed(e.call)

JobsInv ==
  /\ \A w \in Workers : pc[w] \in Reducing => Allowed(job[w].call)
  /\ \A w \in Workers :
       pc[w] \notin {"idle", "next"} /\ IsMarker(job[w].text) => Allowed(job[w].call)
  /\ \A w \in Workers : pc[w] = "next" => job[w].text = Original

StoresInv ==
  /\ \A c \in held \cup local : Allowed(c)
  /\ \A f \in DOMAIN sidecar : sidecar[f] = 0 \/ Allowed(sidecar[f])

ViewsInv ==
  /\ DOMAIN conv = Calls /\ DOMAIN shown = Calls /\ DOMAIN view = Workers
  /\ CopyInv(conv) /\ CopyInv(shown)
  /\ \A w \in Workers : CopyInv(view[w])

BlockInv == WorkersInv /\ CacheInv /\ JobsInv /\ StoresInv /\ ViewsInv

LEMMA RemovedIs ==
  ASSUME NEW S, NEW s \in Seq(S), NEW i \in 1..Len(s)
  PROVE  /\ RemoveAt(s, i) \in Seq(S) /\ Len(RemoveAt(s, i)) = Len(s) - 1
         /\ \A k \in 1..(Len(s) - 1) :
              RemoveAt(s, i)[k] = IF k <= i - 1 THEN s[k] ELSE s[k + 1]
<1>. DEFINE front == SubSeq(s, 1, i - 1)
            rear == SubSeq(s, i + 1, Len(s))
<1>1. Len(s) \in Nat
  BY LenProperties
<1>2. /\ front \in Seq(S) /\ Len(front) = i - 1
      /\ \A k \in 1..(i - 1) : front[k] = s[k]
  BY <1>1
<1>3. /\ rear \in Seq(S) /\ Len(rear) = Len(s) - i
      /\ \A k \in 1..(Len(s) - i) : rear[k] = s[i + k]
  BY <1>1
<1>4. RemoveAt(s, i) = front \o rear
  BY DEF RemoveAt
<1>. HIDE DEF front, rear
<1>5. /\ front \o rear \in Seq(S)
      /\ Len(front \o rear) = Len(front) + Len(rear)
      /\ \A k \in 1..(Len(front) + Len(rear)) :
           (front \o rear)[k] = IF k <= Len(front) THEN front[k]
                                 ELSE rear[k - Len(front)]
  BY <1>2, <1>3, ConcatProperties
<1>6. Len(front) + Len(rear) = Len(s) - 1
  BY <1>1, <1>2, <1>3
<1>7. ASSUME NEW k \in 1..(Len(s) - 1)
      PROVE  (front \o rear)[k] = IF k <= i - 1 THEN s[k] ELSE s[k + 1]
  <2>1. CASE k <= i - 1
    BY <1>1, <1>2, <1>5, <1>6, <2>1
  <2>2. CASE k > i - 1
    <3>1. k - (i - 1) \in 1..(Len(s) - i) /\ i + (k - (i - 1)) = k + 1
      BY <1>1, <2>2
    <3>2. (front \o rear)[k] = rear[k - (i - 1)]
      BY <1>1, <1>2, <1>5, <1>6, <2>2
    <3>3. rear[k - (i - 1)] = s[i + (k - (i - 1))]
      BY <1>3, <3>1
    <3>4. ~(k <= i - 1)
      BY <1>1, <2>2
    <3>. QED
      BY <3>1, <3>2, <3>3, <3>4
  <2>3. k <= i - 1 \/ k > i - 1
    BY <1>1
  <2>. QED
    BY <2>1, <2>2, <2>3
<1>. QED
  BY <1>4, <1>5, <1>6, <1>7

LEMMA WithoutEntries ==
  ASSUME NEW S, NEW s \in Seq(S), NEW c
  PROVE  Without(s, c) \in Seq(S) /\ Entries(Without(s, c)) \subseteq Entries(s)
<1>1. CASE \E i \in 1..Len(s) : s[i].call = c
  <2>. DEFINE i == CHOOSE i \in 1..Len(s) : s[i].call = c
              r == RemoveAt(s, i)
  <2>1. i \in 1..Len(s) /\ Len(s) \in Nat
    BY <1>1
  <2>2. Without(s, c) = r
    BY <1>1 DEF Without
  <2>. HIDE DEF i
  <2>3. /\ r \in Seq(S) /\ Len(r) = Len(s) - 1
        /\ \A k \in 1..(Len(s) - 1) : r[k] = IF k <= i - 1 THEN s[k] ELSE s[k + 1]
    BY <2>1, RemovedIs
  <2>. HIDE DEF r
  <2>4. ASSUME NEW k \in 1..(Len(s) - 1)
        PROVE  \E m \in 1..Len(s) : r[k] = s[m]
    <3>1. k \in 1..Len(s) /\ k + 1 \in 1..Len(s)
      BY <2>1
    <3>2. r[k] = s[k] \/ r[k] = s[k + 1]
      BY <2>3
    <3>. QED
      BY <3>1, <3>2
  <2>5. Entries(r) \subseteq Entries(s)
    <3>1. \A k \in 1..Len(r) : \E m \in 1..Len(s) : r[k] = s[m]
      BY <2>3, <2>4
    <3>. QED
      BY <3>1 DEF Entries
  <2>. QED
    BY <2>2, <2>3, <2>5
<1>2. CASE ~(\E i \in 1..Len(s) : s[i].call = c)
  BY <1>2 DEF Without
<1>. QED
  BY <1>1, <1>2

LEMMA TouchedEntries ==
  ASSUME NEW S, NEW s \in Seq(S), NEW e \in S
  PROVE  /\ Touched(s, e) \in Seq(S)
         /\ Entries(Touched(s, e)) \subseteq Entries(s) \cup {e}
<1>. DEFINE r == Without(s, e.call)
<1>1. r \in Seq(S) /\ Entries(r) \subseteq Entries(s)
  BY WithoutEntries
<1>. HIDE DEF r
<1>2. /\ Append(r, e) \in Seq(S)
      /\ Entries(Append(r, e)) \subseteq Entries(r) \cup {e}
  BY <1>1, AppendProperties DEF Entries
<1>. QED
  BY <1>1, <1>2 DEF Touched, r

LEMMA TrimmedEntries ==
  ASSUME NEW S, NEW s \in Seq(S)
  PROVE  Trimmed(s) \in Seq(S) /\ Entries(Trimmed(s)) \subseteq Entries(s)
<1>1. CASE Len(s) > CacheMax
  <2>1. s # << >> /\ Len(s) \in Nat
    BY <1>1, ReductionAssumption
  <2>2. /\ Tail(s) \in Seq(S) /\ Len(Tail(s)) = Len(s) - 1
        /\ \A k \in 1..Len(Tail(s)) : Tail(s)[k] = s[k + 1]
    BY <2>1, HeadTailProperties
  <2>3. \A k \in 1..Len(Tail(s)) : k + 1 \in 1..Len(s)
    BY <2>1, <2>2
  <2>. QED
    BY <1>1, <2>2, <2>3 DEF Trimmed, Entries
<1>. QED
  BY <1>1 DEF Trimmed

LEMMA CacheBlock ==
  ASSUME WorkersInv, JobsInv, CacheInv, [Next]_vars
  PROVE  CacheInv'
<1>1. CASE UNCHANGED cache
  BY <1>1 DEF CacheInv, Entries
<1>2. ASSUME NEW e \in Entries(cache), cache' = Touched(cache, e)
      PROVE  CacheInv'
  <2>1. e \in CacheEntry
    BY DEF CacheInv, Entries
  <2>2. /\ cache' \in Seq(CacheEntry)
        /\ Entries(cache') \subseteq Entries(cache) \cup {e}
    BY <1>2, <2>1, TouchedEntries DEF CacheInv
  <2>3. Entries(cache)' = Entries(cache')
    BY DEF Entries
  <2>. QED
    BY <2>2, <2>3 DEF CacheInv
<1>3. ASSUME NEW w \in Workers, Deliver(w), cache' # cache
      PROVE  CacheInv'
  <2>. DEFINE e == [call |-> job[w].call, text |-> job[w].text]
  <2>1. cache' = Trimmed(Touched(cache, e)) /\ IsMarker(job[w].text)
        /\ pc[w] = "deliver"
    BY <1>3 DEF Deliver
  <2>2. e \in CacheEntry /\ Allowed(e.call)
    BY <2>1 DEF WorkersInv, JobsInv, CacheEntry, Jobs
  <2>. HIDE DEF e
  <2>3. /\ Touched(cache, e) \in Seq(CacheEntry)
        /\ Entries(Touched(cache, e)) \subseteq Entries(cache) \cup {e}
    BY <2>2, TouchedEntries DEF CacheInv
  <2>4. /\ cache' \in Seq(CacheEntry)
        /\ Entries(cache') \subseteq Entries(cache) \cup {e}
    BY <2>1, <2>3, TrimmedEntries
  <2>5. Entries(cache)' = Entries(cache')
    BY DEF Entries
  <2>. QED
    BY <2>2, <2>4, <2>5 DEF CacheInv
<1>4. CASE cache' = << >>
  BY <1>4 DEF CacheInv, Entries
<1>5. ASSUME NEW w \in Workers, NextResult(w) PROVE CacheInv'
  BY <1>1, <1>2, <1>5 DEF NextResult
<1>6. ASSUME NEW w \in Workers,
             (Attempt(w) /\ ~Deliver(w)) \/ SendRequest(w) \/ LlmRequest(w)
               \/ \E c \in Calls : ToolExecution(w, c)
      PROVE  UNCHANGED cache
  BY <1>6
  DEF Attempt, Gate, Ready, WriteSource, Compress, CompressFails, Synthesize,
      NotUseful, KeepSource, Report, WriteFails, SendRequest, LlmRequest,
      ToolExecution, caches
<1>7. CASE Tick \/ ProviderStops \/ ProviderStarts \/ UNCHANGED vars
  BY <1>1, <1>7 DEF Tick, ProviderStops, ProviderStarts, vars, caches
<1>8. CASE ProcessRestarts
  BY <1>4, <1>8 DEF ProcessRestarts
<1>. QED
  BY <1>1, <1>3, <1>5, <1>6, <1>7, <1>8 DEF Next, Work, Attempt

\* Only these steps of a worker bring anything to the stores.
LEMMA StoresBlock ==
  ASSUME WorkersInv, JobsInv, StoresInv, [Next]_vars
  PROVE  StoresInv'
<1>1. CASE UNCHANGED stores
  BY <1>1 DEF StoresInv, stores
<1>2. ASSUME NEW w \in Workers, pc[w] \in Reducing,
             held' \subseteq held \cup {job[w].call},
             local' \subseteq local \cup {job[w].call},
             sidecar' = sidecar
      PROVE  StoresInv'
  BY <1>2 DEF StoresInv, JobsInv
<1>3. ASSUME NEW w \in Workers, pc[w] \in Reducing, NEW n,
             NEW d \in {0, job[w].call}, UNCHANGED <<held, local>>,
             sidecar' = Put(sidecar, n, d)
      PROVE  StoresInv'
  BY <1>3 DEF StoresInv, JobsInv, Put
<1>4. ASSUME NEW w \in Workers, WriteSource(w) PROVE StoresInv'
  BY <1>3, <1>4 DEF WriteSource, Reducing
<1>5. ASSUME NEW w \in Workers, Compress(w) PROVE StoresInv'
  BY <1>2, <1>5 DEF Compress, Reducing
<1>6. ASSUME NEW w \in Workers, Synthesize(w) \/ KeepSource(w) PROVE StoresInv'
  <2>1. /\ pc[w] \in Reducing /\ held' = held /\ sidecar' = sidecar
        /\ local' \in {local, local \cup {job[w].call}}
    BY <1>6 DEF Synthesize, KeepSource, Retained, NotRetained, Reducing
  <2>. QED
    BY <1>2, <2>1
<1>7. ASSUME NEW w \in Workers, WriteFails(w) PROVE StoresInv'
  <2>1. pc[w] \in Reducing /\ UNCHANGED <<held, local>>
    BY <1>7 DEF WriteFails, Reducing
  <2>2. CASE UNCHANGED sidecar
    BY <1>1, <2>1, <2>2 DEF stores
  <2>3. CASE sidecar' = Put(sidecar, <<now, ToolOf[job[w].call]>>, 0)
    BY <1>3, <2>1, <2>3
  <2>. QED
    BY <1>7, <2>2, <2>3 DEF WriteFails
<1>8. ASSUME NEW w \in Workers,
             \/ Gate(w) \/ Ready(w) \/ CompressFails(w) \/ NotUseful(w)
             \/ Report(w) \/ Deliver(w) \/ NextResult(w) \/ SendRequest(w)
             \/ LlmRequest(w) \/ \E c \in Calls : ToolExecution(w, c)
      PROVE  UNCHANGED stores
  BY <1>8
  DEF Gate, Ready, CompressFails, NotUseful, Report, Deliver, NextResult,
      SendRequest, LlmRequest, ToolExecution, stores
<1>9. CASE Tick \/ ProviderStarts \/ ProcessRestarts \/ UNCHANGED vars
  BY <1>1, <1>9 DEF Tick, ProviderStarts, ProcessRestarts, vars, stores
<1>10. CASE ProviderStops
  BY <1>10 DEF ProviderStops, StoresInv
<1>. QED
  BY <1>1, <1>4, <1>5, <1>6, <1>7, <1>8, <1>9, <1>10 DEF Next, Work, Attempt

\* A worker's step that keeps to what it is allowed.
LEMMA AllowedMove ==
  ASSUME WorkersInv, JobsInv, NEW w \in Workers, NEW j \in Jobs, NEW l \in Labels,
         job' = [job EXCEPT ![w] = j], pc' = [pc EXCEPT ![w] = l],
         l \in Reducing => Allowed(j.call),
         l \notin {"idle", "next"} /\ IsMarker(j.text) => Allowed(j.call),
         l = "next" => j.text = Original
  PROVE  JobsInv'
BY DEF WorkersInv, JobsInv

LEMMA AttemptBlock ==
  ASSUME WorkersInv, JobsInv, NEW w \in Workers,
         \/ Gate(w) \/ Ready(w) \/ WriteSource(w) \/ Compress(w)
         \/ CompressFails(w) \/ Synthesize(w) \/ NotUseful(w) \/ KeepSource(w)
  PROVE  JobsInv'
<1>1. PICK j \in Jobs, l \in Labels \ {"idle", "next"} :
        /\ job' = [job EXCEPT ![w] = j] /\ pc' = [pc EXCEPT ![w] = l]
        /\ j.surface = job[w].surface /\ j.call = job[w].call
        /\ j.todo = job[w].todo
  BY AttemptMoves
<1>2. pc'[w] = l /\ job'[w] = j
  BY <1>1 DEF WorkersInv
<1>3. CASE pc[w] \in Reducing
  BY <1>1, <1>3, AllowedMove DEF JobsInv
<1>4. CASE Gate(w)
  <2>1. l \notin Reducing /\ (j.text = Original \/ j = job[w])
    BY <1>1, <1>2, <1>4 DEF Gate, Settle, Goto, WorkersInv, Reducing, Jobs
  <2>. QED
    BY <1>1, <1>4, <2>1, AllowedMove, TextTypes DEF JobsInv, Gate
<1>5. CASE Ready(w)
  <2>1. /\ l \in Reducing => Allowed(j.call)
        /\ j.text = Original \/ j = job[w]
    BY <1>1, <1>2, <1>5
    DEF Ready, Passes, Allowed, Withheld, Settle, Goto, WorkersInv, Reducing, Jobs
  <2>. QED
    BY <1>1, <1>5, <2>1, AllowedMove, TextTypes DEF JobsInv, Ready
<1>. QED
  BY <1>3, <1>4, <1>5
  DEF WriteSource, Compress, CompressFails, Synthesize, NotUseful, KeepSource,
      Reducing

LEMMA JobsBlock ==
  ASSUME WorkersInv, JobsInv, [Next]_vars
  PROVE  JobsInv'
<1>1. ASSUME NEW w \in Workers,
             SendRequest(w) \/ WriteFails(w)
               \/ (Deliver(w) /\ job[w].surface = "tool")
      PROVE  JobsInv'
  <2>1. job' = [job EXCEPT ![w] = NoJob] /\ pc' = [pc EXCEPT ![w] = "idle"]
    BY <1>1 DEF SendRequest, WriteFails, Deliver, Goto
  <2>. QED
    BY <2>1, NoJobType, AllowedMove DEF Labels, Reducing
<1>2. ASSUME NEW w \in Workers, Deliver(w), job[w].surface = "request"
      PROVE  JobsInv'
  <2>. DEFINE j == [NoJob EXCEPT !.surface = "request", !.todo = job[w].todo]
  <2>1. job' = [job EXCEPT ![w] = j] /\ pc' = [pc EXCEPT ![w] = "next"]
    BY <1>2 DEF Deliver, Goto
  <2>2. j \in Jobs /\ j.text = Original
    BY NoJobType DEF WorkersInv, Jobs, Surfaces, NoJob
  <2>. HIDE DEF j
  <2>. QED
    BY <2>1, <2>2, AllowedMove DEF Labels, Reducing
<1>3. ASSUME NEW w \in Workers, Report(w) PROVE JobsInv'
  <2>1. /\ job' = job /\ pc' = [pc EXCEPT ![w] = "deliver"]
        /\ pc[w] = "report"
    BY <1>3 DEF Report, Goto
  <2>. QED
    BY <2>1 DEF WorkersInv, JobsInv, Reducing
<1>4. ASSUME NEW w \in Workers, LlmRequest(w) PROVE JobsInv'
  <2>. DEFINE S == {c \in Calls : conv[c] \notin {NotRun, Running}}
              j == [NoJob EXCEPT !.surface = "request", !.todo = S]
  <2>1. job' = [job EXCEPT ![w] = j] /\ pc' = [pc EXCEPT ![w] = "next"]
    BY <1>4 DEF LlmRequest, Goto
  <2>2. j \in Jobs /\ j.text = Original
    BY NoJobType DEF NoJob, Jobs, Surfaces
  <2>. HIDE DEF j
  <2>. QED
    BY <2>1, <2>2, AllowedMove DEF Labels, Reducing
<1>5. ASSUME NEW w \in Workers, NEW c \in Calls, ToolExecution(w, c)
      PROVE  JobsInv'
  <2>. DEFINE j == [NoJob EXCEPT !.call = c, !.surface = "tool"]
  <2>1. job' = [job EXCEPT ![w] = j] /\ pc' = [pc EXCEPT ![w] = "gate"]
    BY <1>5 DEF ToolExecution, Goto
  <2>2. j \in Jobs /\ j.text = Original
    BY NoJobType DEF NoJob, Jobs, Surfaces
  <2>. HIDE DEF j
  <2>. QED
    BY <2>1, <2>2, TextTypes, AllowedMove DEF Labels, Reducing
<1>6. ASSUME NEW w \in Workers, NextResult(w) PROVE JobsInv'
  <2>1. PICK c \in job[w].todo :
          /\ job' = [job EXCEPT ![w].todo = @ \ {c}, ![w].call = c]
          /\ pc' = pc \/ pc' = [pc EXCEPT ![w] = "gate"]
    BY <1>6 DEF NextResult, Goto
  <2>. DEFINE j == [job[w] EXCEPT !.todo = @ \ {c}, !.call = c]
  <2>2. /\ job[w] \in Jobs /\ c \in Calls /\ pc[w] = "next"
        /\ job[w].text = Original
    BY <1>6 DEF NextResult, WorkersInv, JobsInv, Jobs
  <2>3. j \in Jobs /\ j.text = Original
    BY <2>2 DEF Jobs
  <2>4. job' = [job EXCEPT ![w] = j]
    BY <2>1, <2>2 DEF Jobs, WorkersInv
  <2>5. PICK l \in {"next", "gate"} : pc' = [pc EXCEPT ![w] = l]
    BY <2>1, <2>2 DEF WorkersInv
  <2>. HIDE DEF j
  <2>. QED
    BY <2>3, <2>4, <2>5, TextTypes, AllowedMove DEF Labels, Reducing
<1>7. CASE Tick \/ ProviderStops \/ ProviderStarts \/ UNCHANGED vars
  BY <1>7 DEF Tick, ProviderStops, ProviderStarts, vars, JobsInv
<1>8. CASE ProcessRestarts
  BY <1>8 DEF ProcessRestarts, JobsInv, Reducing
<1>. QED
  BY <1>1, <1>2, <1>3, <1>4, <1>5, <1>6, <1>7, <1>8, AttemptBlock
  DEF Next, Work, Attempt, Deliver

\* What the model is shown comes from the conversation, from a cache or from
\* an attempt.
LEMMA ViewsBlock ==
  ASSUME WorkersInv, CacheInv, JobsInv, ViewsInv, [Next]_vars
  PROVE  ViewsInv'
<1>1. CASE UNCHANGED <<conv, display>>
  BY <1>1 DEF ViewsInv, CopyInv, display
<1>2. ASSUME NEW w \in Workers, NEW c \in Calls, ToolExecution(w, c)
      PROVE  ViewsInv'
  <2>1. conv' = [conv EXCEPT ![c] = Running] /\ UNCHANGED display
    BY <1>2 DEF ToolExecution
  <2>. QED
    BY <2>1, TextTypes DEF ViewsInv, CopyInv, display
<1>3. ASSUME NEW w \in Workers, LlmRequest(w) PROVE ViewsInv'
  <2>. DEFINE S == {c \in Calls : conv[c] \notin {NotRun, Running}}
  <2>1. UNCHANGED <<conv, shown>>
        /\ view' = [view EXCEPT ![w] = [c \in S |-> conv[c]]]
    BY <1>3 DEF LlmRequest
  <2>. QED
    BY <2>1 DEF ViewsInv, CopyInv
<1>4. ASSUME NEW w \in Workers, NextResult(w) PROVE ViewsInv'
  <2>1. UNCHANGED <<conv, shown>>
    BY <1>4 DEF NextResult
  <2>2. \/ view' = view
        \/ \E e \in Entries(cache) : view' = [view EXCEPT ![w][e.call] = e.text]
    BY <1>4 DEF NextResult
  <2>3. \A e \in Entries(cache) : Allowed(e.call)
    BY DEF CacheInv
  <2>. QED
    BY <2>1, <2>2, <2>3 DEF ViewsInv, CopyInv
<1>5. ASSUME NEW w \in Workers, SendRequest(w) PROVE ViewsInv'
  <2>1. /\ conv' = conv /\ view' = [view EXCEPT ![w] = << >>]
        /\ shown' = [c \in Calls |-> IF c \in DOMAIN view[w] THEN view[w][c]
                                                             ELSE shown[c]]
    BY <1>5 DEF SendRequest
  <2>. QED
    BY <2>1 DEF ViewsInv, CopyInv
<1>6. ASSUME NEW w \in Workers, Deliver(w) PROVE ViewsInv'
  <2>. DEFINE c == job[w].call
              t == job[w].text
  <2>1. shown' = shown /\ c \in Calls /\ (IsMarker(t) => Allowed(c))
    BY <1>6 DEF Deliver, WorkersInv, JobsInv
  <2>2. CASE job[w].surface = "tool"
    <3>1. view' = view /\ conv' = [conv EXCEPT ![c] = t]
      BY <1>6, <2>2 DEF Deliver
    <3>. QED
      BY <2>1, <3>1 DEF ViewsInv, CopyInv
  <2>3. CASE job[w].surface = "request"
    <3>1. conv' = conv
          /\ view' = [view EXCEPT ![w][c] = IF IsMarker(t) THEN t ELSE @]
      BY <1>6, <2>3 DEF Deliver
    <3>. QED
      BY <2>1, <3>1 DEF ViewsInv, CopyInv
  <2>. QED
    BY <1>6, <2>2, <2>3 DEF Deliver
<1>7. ASSUME NEW w \in Workers, WriteFails(w) PROVE ViewsInv'
  <2>1. view' = [view EXCEPT ![w] = << >>]
    BY <1>7 DEF WriteFails
  <2>2. \/ UNCHANGED shown /\ conv' = [conv EXCEPT ![job[w].call] = Original]
        \/ /\ UNCHANGED conv
           /\ shown' = [c \in Calls |-> IF c \in DOMAIN view[w] THEN conv[c]
                                                                ELSE shown[c]]
    BY <1>7 DEF WriteFails
  <2>. QED
    BY <2>1, <2>2, TextTypes DEF ViewsInv, CopyInv
<1>8. ASSUME NEW w \in Workers,
             \/ Gate(w) \/ Ready(w) \/ WriteSource(w) \/ Compress(w)
             \/ CompressFails(w) \/ Synthesize(w) \/ NotUseful(w)
             \/ KeepSource(w) \/ Report(w)
      PROVE  UNCHANGED <<conv, display>>
  BY <1>8
  DEF Gate, Ready, WriteSource, Compress, CompressFails, Synthesize, NotUseful,
      KeepSource, Report
<1>9. CASE Tick \/ ProviderStops \/ ProviderStarts \/ UNCHANGED vars
  BY <1>1, <1>9 DEF Tick, ProviderStops, ProviderStarts, vars
<1>10. CASE ProcessRestarts
  BY <1>10 DEF ProcessRestarts, ViewsInv, CopyInv
<1>. QED
  BY <1>1, <1>2, <1>3, <1>4, <1>5, <1>6, <1>7, <1>8, <1>9, <1>10
  DEF Next, Work, Attempt

LEMMA InitBlock == Init => BlockInv
<1>. SUFFICES ASSUME Init PROVE BlockInv
  OBVIOUS
<1>1. CacheInv
  BY DEF Init, CacheInv, Entries
<1>2. JobsInv /\ StoresInv
  BY DEF Init, JobsInv, StoresInv, Reducing
<1>3. ViewsInv
  BY TextTypes DEF Init, ViewsInv, CopyInv
<1>. QED
  BY <1>1, <1>2, <1>3, InitWorkers DEF BlockInv

LEMMA BlockStep == BlockInv /\ [Next]_vars => BlockInv'
BY WorkersStep, CacheBlock, JobsBlock, StoresBlock, ViewsBlock DEF BlockInv

\* BlockedStaysHere for every session: what policy or redaction withholds
\* (reduction.py:511) is in no store, no report file and no request.
THEOREM WithheldNeverLeaves == Spec => []BlockedStaysHere
<1>1. BlockInv => BlockedStaysHere
  <2>. SUFFICES ASSUME BlockInv, NEW c \in Calls, Withheld(c)
                PROVE  /\ c \notin held \cup local
                       /\ \A f \in DOMAIN sidecar : sidecar[f] # c
                       /\ ~IsMarker(conv[c]) /\ ~IsMarker(shown[c])
    BY DEF BlockedStaysHere
  <2>1. ~Allowed(c) /\ c # 0
    BY ReductionAssumption DEF Allowed, Calls
  <2>. QED
    BY <2>1 DEF BlockInv, StoresInv, ViewsInv, CopyInv
<1>. QED
  BY <1>1, InitBlock, BlockStep, PTL DEF Spec

-----------------------------------------------------------------------------
(* The inductive invariant behind ReplacedIsRecoverable, while nothing     *)
(* leaves a store.  A text becomes a marker in Synthesize, with a local    *)
(* copy, or in KeepSource, when the provider answered with one; the source *)
(* of an answer with markers is held from the answer on.                   *)

Untouched == {"next", "gate", "ready", "source", "compress", "synthesize"}

\* A job j at step l, while the provider holds h and the local store k.
Backed(j, l, h, k) ==
  /\ l \in Untouched => j.text = Original
  /\ l \in {"synthesize", "judge"} /\ j.outcome.markers > 0 => j.call \in h
  /\ l # "idle" /\ j.text.origin = "ccr" => j.call \in h \cup k
  /\ l # "idle" /\ j.text.origin = "local" => j.call \in k

MarkersInv == \A w \in Workers : Backed(job[w], pc[w], held, local)

LEMMA InitMarkers == Init => MarkersInv
BY DEF Init, MarkersInv, Backed, Untouched

\* A worker's step, in which no store loses anything.
LEMMA BackedMove ==
  ASSUME WorkersInv, MarkersInv, NEW w \in Workers, NEW j \in Jobs, NEW l \in Labels,
         job' = [job EXCEPT ![w] = j], pc' = [pc EXCEPT ![w] = l],
         held \subseteq held', local \subseteq local',
         Backed(j, l, held', local')
  PROVE  MarkersInv'
BY DEF WorkersInv, MarkersInv, Backed

LEMMA RequestMarkers ==
  ASSUME WorkersInv, MarkersInv, NEW w \in Workers,
         (\E c \in Calls : ToolExecution(w, c)) \/ LlmRequest(w)
           \/ NextResult(w) \/ SendRequest(w) \/ WriteFails(w) \/ Deliver(w)
  PROVE  MarkersInv'
<1>1. UNCHANGED <<held, local>>
  BY DEF ToolExecution, LlmRequest, NextResult, SendRequest, WriteFails, Deliver,
         stores
<1>2. Original.origin = "original" /\ NoJob.text = Original
  BY DEF Original, Text, NoJob
<1>3. CASE SendRequest(w) \/ WriteFails(w)
             \/ (Deliver(w) /\ job[w].surface = "tool")
  <2>1. job' = [job EXCEPT ![w] = NoJob] /\ pc' = [pc EXCEPT ![w] = "idle"]
    BY <1>3 DEF SendRequest, WriteFails, Deliver, Goto
  <2>2. Backed(NoJob, "idle", held', local')
    BY DEF Backed, Untouched
  <2>. QED
    BY <1>1, <2>1, <2>2, NoJobType, BackedMove DEF Labels
<1>4. ASSUME NEW j \in Jobs, NEW l \in {"next", "gate"}, j.text = Original,
             job' = [job EXCEPT ![w] = j], pc' = [pc EXCEPT ![w] = l]
      PROVE  MarkersInv'
  <2>1. Backed(j, l, held', local') /\ l \in Labels
    BY <1>2, <1>4 DEF Backed, Labels
  <2>. QED
    BY <1>1, <1>4, <2>1, BackedMove
<1>5. CASE \E c \in Calls : ToolExecution(w, c)
  <2>1. PICK c \in Calls : ToolExecution(w, c)
    BY <1>5
  <2>. DEFINE j == [NoJob EXCEPT !.call = c, !.surface = "tool"]
  <2>2. job' = [job EXCEPT ![w] = j] /\ pc' = [pc EXCEPT ![w] = "gate"]
    BY <2>1 DEF ToolExecution, Goto
  <2>3. j \in Jobs /\ j.text = Original
    BY NoJobType DEF NoJob, Jobs, Surfaces
  <2>. HIDE DEF j
  <2>. QED
    BY <1>4, <2>2, <2>3
<1>6. CASE LlmRequest(w)
  <2>. DEFINE S == {c \in Calls : conv[c] \notin {NotRun, Running}}
              j == [NoJob EXCEPT !.surface = "request", !.todo = S]
  <2>1. job' = [job EXCEPT ![w] = j] /\ pc' = [pc EXCEPT ![w] = "next"]
    BY <1>6 DEF LlmRequest, Goto
  <2>2. j \in Jobs /\ j.text = Original
    BY NoJobType DEF NoJob, Jobs, Surfaces
  <2>. HIDE DEF j
  <2>. QED
    BY <1>4, <2>1, <2>2
<1>7. CASE Deliver(w) /\ job[w].surface = "request"
  <2>. DEFINE j == [NoJob EXCEPT !.surface = "request", !.todo = job[w].todo]
  <2>1. job' = [job EXCEPT ![w] = j] /\ pc' = [pc EXCEPT ![w] = "next"]
    BY <1>7 DEF Deliver, Goto
  <2>2. j \in Jobs /\ j.text = Original
    BY NoJobType DEF WorkersInv, Jobs, Surfaces, NoJob
  <2>. HIDE DEF j
  <2>. QED
    BY <1>4, <2>1, <2>2
<1>8. CASE NextResult(w)
  <2>1. PICK c \in job[w].todo :
          /\ job' = [job EXCEPT ![w].todo = @ \ {c}, ![w].call = c]
          /\ pc' = pc \/ pc' = [pc EXCEPT ![w] = "gate"]
    BY <1>8 DEF NextResult, Goto
  <2>. DEFINE j == [job[w] EXCEPT !.todo = @ \ {c}, !.call = c]
  <2>2. /\ job[w] \in Jobs /\ c \in Calls /\ pc[w] = "next"
        /\ job[w].text = Original
    BY <1>8 DEF NextResult, WorkersInv, MarkersInv, Backed, Untouched, Jobs
  <2>3. j \in Jobs /\ j.text = Original
    BY <2>2 DEF Jobs
  <2>4. job' = [job EXCEPT ![w] = j]
    BY <2>1, <2>2 DEF Jobs, WorkersInv
  <2>5. PICK l \in {"next", "gate"} : pc' = [pc EXCEPT ![w] = l]
    BY <2>1, <2>2 DEF WorkersInv
  <2>. HIDE DEF j
  <2>. QED
    BY <1>4, <2>3, <2>4, <2>5
<1>. QED
  BY <1>3, <1>5, <1>6, <1>7, <1>8 DEF Deliver

\* How the steps of an attempt change the text, the answer and the stores.
LEMMA AttemptMarkers ==
  ASSUME WorkersInv, MarkersInv, NEW w \in Workers,
         \/ Gate(w) \/ Ready(w) \/ WriteSource(w) \/ Compress(w)
         \/ CompressFails(w) \/ Synthesize(w) \/ NotUseful(w) \/ KeepSource(w)
  PROVE  MarkersInv'
<1>1. PICK j \in Jobs, l \in Labels \ {"idle", "next"} :
        /\ job' = [job EXCEPT ![w] = j] /\ pc' = [pc EXCEPT ![w] = l]
        /\ j.surface = job[w].surface /\ j.call = job[w].call
        /\ j.todo = job[w].todo
  BY AttemptMoves
<1>2. /\ pc'[w] = l /\ job'[w] = j /\ job[w] \in Jobs
      /\ job \in [Workers -> Jobs] /\ pc \in [Workers -> Labels]
      /\ Backed(job[w], pc[w], held, local)
  BY <1>1 DEF WorkersInv, MarkersInv
<1>3. Original.origin = "original"
  BY DEF Original, Text
<1>4. ASSUME Settle(w, Original), UNCHANGED <<held, local>>
      PROVE  MarkersInv'
  <2>1. l = "deliver" /\ j.text = Original
    BY <1>2, <1>4 DEF Settle, Goto, Jobs
  <2>2. Backed(j, l, held', local')
    BY <1>3, <2>1 DEF Backed, Untouched
  <2>. QED
    BY <1>1, <1>4, <2>2, BackedMove
<1>5. ASSUME pc[w] \in Untouched, l \in {"ready", "source", "compress"},
             j.text = job[w].text, UNCHANGED <<held, local>>
      PROVE  MarkersInv'
  <2>1. Backed(j, l, held', local')
    BY <1>2, <1>3, <1>5 DEF Backed
  <2>. QED
    BY <1>1, <1>5, <2>1, BackedMove
<1>6. CASE Gate(w) \/ Ready(w)
  <2>1. pc[w] \in Untouched /\ UNCHANGED <<held, local>>
    BY <1>6 DEF Gate, Ready, Untouched, stores
  <2>2. \/ Settle(w, Original)
        \/ l \in {"ready", "source"} /\ j.text = job[w].text
    BY <1>1, <1>2, <1>6 DEF Gate, Ready, Goto
  <2>. QED
    BY <1>4, <1>5, <2>1, <2>2
<1>7. CASE WriteSource(w)
  <2>1. /\ pc[w] \in Untouched /\ UNCHANGED <<held, local>>
        /\ l = "compress" /\ j.text = job[w].text
    BY <1>2, <1>7 DEF WriteSource, Untouched, Goto, Jobs
  <2>. QED
    BY <1>5, <2>1
<1>8. CASE Compress(w)
  <2>1. PICK o \in Outcomes :
          /\ job' = [job EXCEPT ![w].outcome = o]
          /\ held' = IF o.markers > 0 THEN held \cup {job[w].call} ELSE held
    BY <1>8 DEF Compress
  <2>2. /\ pc[w] \in Untouched /\ l = "synthesize" /\ local' = local
        /\ j.outcome = o /\ j.text = job[w].text
    BY <1>2, <1>8, <2>1 DEF Compress, Untouched, Goto, Jobs
  <2>3. Backed(j, l, held', local')
    BY <1>1, <1>2, <1>3, <2>1, <2>2 DEF Backed
  <2>. QED
    BY <1>1, <2>1, <2>2, <2>3, BackedMove
<1>9. CASE CompressFails(w) \/ NotUseful(w)
  BY <1>4, <1>9 DEF CompressFails, NotUseful, stores
<1>10. ASSUME NEW t, j.text = t, j.outcome = job[w].outcome,
              l \in {"judge", "report"}, held' = held, local \subseteq local',
              pc[w] \in {"synthesize", "judge"}, l = "judge" => pc[w] = "synthesize",
              t.origin = "ccr" => j.call \in held' \cup local',
              t.origin = "local" => j.call \in local'
       PROVE  MarkersInv'
  <2>1. Backed(j, l, held', local')
    BY <1>1, <1>2, <1>10 DEF Backed, Untouched
  <2>. QED
    BY <1>1, <1>10, <2>1, BackedMove
<1>11. ASSUME NEW origin \in {"ccr", "local"}, Retained(w, origin)
       PROVE  /\ j.text = Text(origin, job[w].stamp) /\ j.outcome = job[w].outcome
              /\ local' = local \cup {j.call}
  BY <1>1, <1>2, <1>11 DEF Retained, Jobs
<1>12. ASSUME NEW t, NotRetained(w, t)
       PROVE  j.text = t /\ j.outcome = job[w].outcome /\ local' = local
  BY <1>2, <1>12 DEF NotRetained, Jobs
<1>13. CASE Synthesize(w)
  <2>1. /\ pc[w] = "synthesize" /\ l = "judge" /\ held' = held
        /\ job[w].text = Original
    BY <1>2, <1>13 DEF Synthesize, Goto, Backed, Untouched
  <2>2. CASE Retained(w, "local")
    BY <1>10, <1>11, <2>1, <2>2 DEF Text
  <2>3. CASE NotRetained(w, Original)
    BY <1>3, <1>10, <1>12, <2>1, <2>3
  <2>4. CASE UNCHANGED <<local, job>>
    BY <1>1, <1>2, <1>3, <1>10, <2>1, <2>4
  <2>. QED
    BY <1>13, <2>2, <2>3, <2>4 DEF Synthesize
<1>14. CASE KeepSource(w)
  <2>1. /\ pc[w] = "judge" /\ l = "report" /\ held' = held
        /\ IsMarker(job[w].text) \/ j.call \in held
    BY <1>1, <1>2, <1>14 DEF KeepSource, Useful, Goto, Backed
  <2>2. CASE Retained(w, "ccr")
    BY <1>10, <1>11, <2>1, <2>2 DEF Text
  <2>3. CASE NotRetained(w, Text("ccr", job[w].stamp)) /\ ~IsMarker(job[w].text)
    BY <1>10, <1>12, <2>1, <2>3 DEF Text
  <2>4. CASE UNCHANGED <<local, job>>
    <3>1. j = job[w]
      BY <1>2, <2>4
    <3>2. /\ j.text.origin = "ccr" => j.call \in held' \cup local'
          /\ j.text.origin = "local" => j.call \in local'
      BY <1>2, <2>1, <2>4, <3>1 DEF Backed
    <3>. QED
      BY <1>10, <2>1, <2>4, <3>1, <3>2
  <2>. QED
    BY <1>14, <2>2, <2>3, <2>4 DEF KeepSource
<1>. QED
  BY <1>6, <1>7, <1>8, <1>9, <1>13, <1>14

LEMMA MarkersStep ==
  ASSUME "provider" \notin Faults, WorkersInv, MarkersInv, [Next]_vars
  PROVE  MarkersInv'
<1>1. CASE Tick \/ ProviderStarts \/ UNCHANGED vars
  <2>1. UNCHANGED <<pc, job, held, local>>
    BY <1>1 DEF Tick, ProviderStarts, vars, stores
  <2>. QED
    BY <2>1 DEF MarkersInv
<1>2. CASE ProcessRestarts
  BY <1>2 DEF ProcessRestarts, stores, MarkersInv, Backed, Untouched
<1>3. ASSUME NEW w \in Workers, Report(w) PROVE MarkersInv'
  <2>1. /\ UNCHANGED <<job, held, local>> /\ pc' = [pc EXCEPT ![w] = "deliver"]
        /\ pc[w] = "report"
    BY <1>3 DEF Report, Goto, stores
  <2>. QED
    BY <2>1 DEF WorkersInv, MarkersInv, Backed, Untouched
<1>. QED
  BY <1>1, <1>2, <1>3, RequestMarkers, AttemptMarkers
  DEF Next, Work, Attempt, ProviderStops

\* ReplacedIsRecoverable for every session: while the provider keeps running,
\* a marker the model is about to be given (reduction.py:560) leads to its
\* source in the provider or in the local store, whatever else fails.
THEOREM MarkersLeadBack ==
  ASSUME "provider" \notin Faults
  PROVE  Spec => []ReplacedIsRecoverable
<1>1. WorkersInv /\ MarkersInv => ReplacedIsRecoverable
  BY DEF WorkersInv, MarkersInv, Backed, ReplacedIsRecoverable, Recoverable, IsMarker
<1>2. WorkersInv /\ MarkersInv /\ [Next]_vars => WorkersInv' /\ MarkersInv'
  BY WorkersStep, MarkersStep
<1>. QED
  BY <1>1, <1>2, InitWorkers, InitMarkers, PTL DEF Spec

-----------------------------------------------------------------------------
(* The caches as sequences of entries of different calls.                  *)

Once(s) == \A i, j \in 1..Len(s) : s[i].call = s[j].call => i = j
Names(s, c) == \E i \in 1..Len(s) : s[i].call = c

LEMMA WithoutIs ==
  ASSUME NEW S, NEW s \in Seq(S), NEW c, Once(s)
  PROVE  /\ Without(s, c) \in Seq(S) /\ Once(Without(s, c))
         /\ Entries(Without(s, c)) = {e \in Entries(s) : e.call # c}
         /\ Len(Without(s, c)) \in Nat
         /\ Len(Without(s, c)) = IF Names(s, c) THEN Len(s) - 1 ELSE Len(s)
<1>0. Len(s) \in Nat
  BY LenProperties
<1>1. CASE Names(s, c)
  <2>. DEFINE i == CHOOSE i \in 1..Len(s) : s[i].call = c
              r == RemoveAt(s, i)
  <2>1. i \in 1..Len(s) /\ s[i].call = c
    BY <1>1 DEF Names
  <2>2. Without(s, c) = r
    BY <1>1 DEF Without, Names
  <2>. HIDE DEF i
  <2>3. /\ r \in Seq(S) /\ Len(r) = Len(s) - 1
        /\ \A k \in 1..(Len(s) - 1) : r[k] = IF k <= i - 1 THEN s[k] ELSE s[k + 1]
    BY <2>1, RemovedIs
  <2>. HIDE DEF r
  <2>. DEFINE at(k) == IF k <= i - 1 THEN k ELSE k + 1
  <2>4. ASSUME NEW k \in 1..Len(r)
        PROVE  at(k) \in 1..Len(s) /\ at(k) # i /\ r[k] = s[at(k)]
    BY <1>0, <2>1, <2>3
  <2>5. \A k, l \in 1..Len(r) : at(k) = at(l) => k = l
    BY <1>0, <2>1, <2>3
  <2>6. ASSUME NEW m \in 1..Len(s), m # i
        PROVE  \E k \in 1..Len(r) : at(k) = m
    <3>1. CASE m < i
      <4>1. m \in 1..Len(r) /\ at(m) = m
        BY <1>0, <2>1, <2>3, <3>1
      <4>. QED
        BY <4>1
    <3>2. CASE m > i
      <4>1. m - 1 \in 1..Len(r) /\ at(m - 1) = m
        BY <1>0, <2>1, <2>3, <3>2
      <4>. QED
        BY <4>1
    <3>. QED
      BY <1>0, <2>1, <2>6, <3>1, <3>2
  <2>. HIDE DEF at
  <2>7. Once(r)
    <3>. SUFFICES ASSUME NEW k \in 1..Len(r), NEW l \in 1..Len(r), r[k].call = r[l].call
                  PROVE  k = l
      BY DEF Once
    <3>1. at(k) \in 1..Len(s) /\ at(l) \in 1..Len(s) /\ s[at(k)].call = s[at(l)].call
      BY <2>4
    <3>2. at(k) = at(l)
      BY <3>1 DEF Once
    <3>. QED
      BY <2>5, <3>2
  <2>8. ASSUME NEW k \in 1..Len(r)
        PROVE  \E m \in 1..Len(s) : r[k] = s[m] /\ s[m].call # c
    <3>1. at(k) \in 1..Len(s) /\ at(k) # i /\ r[k] = s[at(k)]
      BY <2>4
    <3>2. s[at(k)].call # c
      BY <2>1, <3>1 DEF Once
    <3>. QED
      BY <3>1, <3>2
  <2>9. ASSUME NEW m \in 1..Len(s), s[m].call # c
        PROVE  \E k \in 1..Len(r) : r[k] = s[m]
    <3>1. PICK k \in 1..Len(r) : at(k) = m
      BY <2>1, <2>6, <2>9
    <3>. QED
      BY <2>4, <3>1
  <2>10. Entries(r) = {e \in Entries(s) : e.call # c}
    <3>1. \A e \in Entries(r) : e \in Entries(s) /\ e.call # c
      BY <2>8 DEF Entries
    <3>2. \A e \in Entries(s) : e.call # c => e \in Entries(r)
      BY <2>9 DEF Entries
    <3>. QED
      BY <3>1, <3>2
  <2>11. Len(r) \in Nat
    BY <2>3, LenProperties
  <2>. QED
    <3>1. Len(r) = IF Names(s, c) THEN Len(s) - 1 ELSE Len(s)
      BY <1>1, <2>3
    <3>. QED
      BY Zenon, <2>2, <2>3, <2>7, <2>10, <2>11, <3>1
<1>2. CASE ~Names(s, c)
  <2>1. Without(s, c) = s
    BY <1>2 DEF Without, Names
  <2>2. \A e \in Entries(s) : e.call # c
    BY <1>2 DEF Entries, Names
  <2>. QED
    BY <1>0, <1>2, <2>1, <2>2
<1>. QED
  BY <1>1, <1>2

LEMMA TouchedIs ==
  ASSUME NEW S, NEW s \in Seq(S), NEW e \in S, Once(s)
  PROVE  /\ Touched(s, e) \in Seq(S) /\ Once(Touched(s, e))
         /\ Entries(Touched(s, e)) = {x \in Entries(s) : x.call # e.call} \cup {e}
         /\ Len(Touched(s, e)) = IF Names(s, e.call) THEN Len(s) ELSE Len(s) + 1
<1>. DEFINE r == Without(s, e.call)
            q == Append(r, e)
<1>1. /\ r \in Seq(S) /\ Once(r)
      /\ Entries(r) = {x \in Entries(s) : x.call # e.call}
      /\ Len(r) \in Nat
      /\ Len(r) = IF Names(s, e.call) THEN Len(s) - 1 ELSE Len(s)
  BY WithoutIs
<1>2. q = Touched(s, e) /\ Len(s) \in Nat
  BY LenProperties DEF Touched
<1>. HIDE DEF r
<1>3. /\ q \in Seq(S) /\ Len(q) = Len(r) + 1
      /\ \A k \in 1..Len(r) : q[k] = r[k]
      /\ q[Len(r) + 1] = e
  BY <1>1, AppendProperties
<1>. HIDE DEF q
<1>4. \A k \in 1..Len(r) : r[k].call # e.call
  <2>1. \A k \in 1..Len(r) : r[k] \in Entries(r)
    BY DEF Entries
  <2>. QED
    BY <1>1, <2>1
<1>5. \A k \in 1..Len(q) : k \in 1..Len(r) \/ k = Len(r) + 1
  BY <1>1, <1>3
<1>6. Once(q)
  <2>. SUFFICES ASSUME NEW k \in 1..Len(q), NEW l \in 1..Len(q), q[k].call = q[l].call
                PROVE  k = l
    BY DEF Once
  <2>1. CASE k \in 1..Len(r) /\ l \in 1..Len(r)
    BY <1>1, <1>3, <2>1 DEF Once
  <2>2. CASE k \in 1..Len(r) /\ l = Len(r) + 1
    BY <1>3, <1>4, <2>2
  <2>3. CASE k = Len(r) + 1 /\ l \in 1..Len(r)
    BY <1>3, <1>4, <2>3
  <2>. QED
    BY <1>5, <2>1, <2>2, <2>3
<1>7. Entries(q) = Entries(r) \cup {e}
  <2>1. \A k \in 1..Len(r) : k \in 1..Len(q)
    BY <1>1, <1>3
  <2>2. Len(r) + 1 \in 1..Len(q)
    BY <1>1, <1>3
  <2>3. \A k \in 1..Len(q) : q[k] \in Entries(r) \cup {e}
    BY <1>3, <1>5 DEF Entries
  <2>4. \A k \in 1..Len(r) : r[k] \in Entries(q)
    BY <1>3, <2>1 DEF Entries
  <2>5. e \in Entries(q)
    BY <1>3, <2>2 DEF Entries
  <2>6. Entries(r) \subseteq Entries(q)
    BY <2>4 DEF Entries
  <2>7. Entries(q) \subseteq Entries(r) \cup {e}
    BY <2>3 DEF Entries
  <2>. QED
    BY <2>5, <2>6, <2>7
<1>8. Len(q) = IF Names(s, e.call) THEN Len(s) ELSE Len(s) + 1
  BY <1>1, <1>2, <1>3
<1>. QED
  BY <1>1, <1>2, <1>3, <1>6, <1>7, <1>8

LEMMA TrimmedIs ==
  ASSUME NEW S, NEW s \in Seq(S), Once(s)
  PROVE  /\ Once(Trimmed(s)) /\ Trimmed(s) \in Seq(S)
         /\ Entries(Trimmed(s)) \subseteq Entries(s)
         /\ Len(s) <= CacheMax + 1 => Len(Trimmed(s)) <= CacheMax
<1>1. Trimmed(s) \in Seq(S) /\ Entries(Trimmed(s)) \subseteq Entries(s)
  BY TrimmedEntries
<1>2. CacheMax \in Nat /\ Len(s) \in Nat
  BY LenProperties, ReductionAssumption
<1>3. CASE Len(s) > CacheMax
  <2>1. Trimmed(s) = Tail(s)
    BY <1>3 DEF Trimmed
  <2>2. s # << >>
    BY <1>2, <1>3
  <2>3. Len(Tail(s)) = Len(s) - 1 /\ \A k \in 1..Len(Tail(s)) : Tail(s)[k] = s[k + 1]
    BY <2>2, HeadTailProperties
  <2>. DEFINE t == Tail(s)
  <2>. HIDE DEF t
  <2>4. Once(t)
    <3>. SUFFICES ASSUME NEW k \in 1..Len(t), NEW l \in 1..Len(t), t[k].call = t[l].call
                  PROVE  k = l
      BY DEF Once
    <3>1. /\ k + 1 \in 1..Len(s) /\ l + 1 \in 1..Len(s)
          /\ s[k + 1].call = s[l + 1].call
      BY <1>2, <2>3 DEF t
    <3>2. k + 1 = l + 1
      BY <3>1 DEF Once
    <3>. QED
      BY <3>2
  <2>5. Once(Trimmed(s))
    BY <2>1, <2>4 DEF t
  <2>6. Len(s) <= CacheMax + 1 => Len(Trimmed(s)) <= CacheMax
    BY <1>2, <2>1, <2>3
  <2>. QED
    BY <1>1, <2>5, <2>6
<1>4. CASE ~(Len(s) > CacheMax)
  <2>1. Trimmed(s) = s
    BY <1>4 DEF Trimmed
  <2>2. Len(s) <= CacheMax
    BY <1>2, <1>4
  <2>. QED
    BY <2>1, <2>2
<1>. QED
  BY <1>3, <1>4

LEMMA PurgedIs ==
  ASSUME NEW S, NEW s \in Seq(S), Once(s)
  PROVE  /\ Once(Purged(s)) /\ Purged(s) \in Seq(S) /\ Len(Purged(s)) <= Len(s)
         /\ Entries(Purged(s)) = {e \in Entries(s) : e.expires > now}
<1>. DEFINE I == {i \in 1..Len(s) : s[i].expires > now}
            q == Subsequence(s, I)
<1>0. Purged(s) = q
  BY DEF Purged
<1>1. I \subseteq 1..Len(s) /\ \A i \in I : s[i].expires > now
  OBVIOUS
<1>2. \A i \in 1..Len(s) : s[i].expires > now => i \in I
  OBVIOUS
<1>. HIDE DEF I
<1>3. q \in Seq(S) /\ Len(q) \in 0..Len(s) /\ Len(s) \in Nat
  BY <1>1, SubsequenceIs, LenProperties
<1>4. PICK f : Places(s, I, q, f)
  BY <1>1, SubsequenceIs
<1>. HIDE DEF q
<1>5. /\ \A k \in 1..Len(q) : f[k] \in I /\ q[k] = s[f[k]]
      /\ \A k, l \in 1..Len(q) : k < l => f[k] < f[l]
      /\ \A i \in I : \E k \in 1..Len(q) : f[k] = i
  BY <1>4 DEF Places
<1>6. Once(q)
  <2>. SUFFICES ASSUME NEW k \in 1..Len(q), NEW l \in 1..Len(q), q[k].call = q[l].call
                PROVE  k = l
    BY DEF Once
  <2>1. f[k] \in 1..Len(s) /\ f[l] \in 1..Len(s) /\ s[f[k]].call = s[f[l]].call
    BY <1>1, <1>5
  <2>2. f[k] = f[l]
    BY <2>1 DEF Once
  <2>3. k < l => f[k] < f[l]
    BY <1>5
  <2>4. l < k => f[l] < f[k]
    BY <1>5
  <2>5. f[k] \in Int /\ f[l] \in Int /\ k \in Int /\ l \in Int
    BY <1>3, <2>1
  <2>. QED
    BY <2>2, <2>3, <2>4, <2>5
<1>7. \A k \in 1..Len(q) : \E i \in 1..Len(s) : q[k] = s[i] /\ s[i].expires > now
  BY <1>1, <1>5
<1>8. \A i \in 1..Len(s) : s[i].expires > now => \E k \in 1..Len(q) : q[k] = s[i]
  BY <1>2, <1>5
<1>9. Entries(q) = {e \in Entries(s) : e.expires > now}
  <2>1. \A e \in Entries(q) : e \in Entries(s) /\ e.expires > now
    BY <1>7 DEF Entries
  <2>2. \A e \in Entries(s) : e.expires > now => e \in Entries(q)
    BY <1>8 DEF Entries
  <2>. QED
    BY <2>1, <2>2
<1>10. Len(q) <= Len(s)
  BY <1>3
<1>. QED
  BY <1>0, <1>3, <1>6, <1>9, <1>10

-----------------------------------------------------------------------------
(* The inductive invariant behind the types: besides WorkersInv, what the  *)
(* caches and the conversation hold.                                       *)

NegativeEntry == [call : Calls, expires : Nat]
CachesInv ==
  /\ negative \in Seq(NegativeEntry) /\ Once(negative) /\ Len(negative) <= CacheMax
  /\ cache \in Seq(CacheEntry) /\ Once(cache) /\ Len(cache) <= CacheMax
  /\ \A e \in Entries(cache) : IsMarker(e.text)

DataInv ==
  /\ requests \in Nat /\ up \in BOOLEAN
  /\ held \subseteq Calls /\ local \subseteq Calls
  /\ \A f \in DOMAIN sidecar : sidecar[f] \in Calls \cup {0}
  /\ logged \subseteq Calls
  /\ savings \in [Calls -> Nat] /\ refused \in [Calls -> Nat]

CopiesInv ==
  /\ conv \in [Calls -> Texts] /\ shown \in [Calls -> Texts]
  /\ DOMAIN view = Workers
  /\ \A w \in Workers :
       /\ DOMAIN view[w] \subseteq Calls
       /\ \A c \in DOMAIN view[w] : view[w][c] \in Texts

TypesInv == WorkersInv /\ CachesInv /\ DataInv /\ CopiesInv

LEMMA TypesSuffice == TypesInv => TypeOK
BY DEF TypesInv, WorkersInv, CachesInv, DataInv, CopiesInv, TypeOK, Once

LEMMA InitTypes == Init => TypesInv
<1>. SUFFICES ASSUME Init PROVE TypesInv
  OBVIOUS
<1>1. WorkersInv
  BY InitWorkers
<1>2. CachesInv
  <2>1. /\ negative = << >> /\ cache = << >>
        /\ Len(<< >>) = 0 /\ << >> \in Seq(NegativeEntry) /\ << >> \in Seq(CacheEntry)
    BY EmptySeq DEF Init
  <2>2. Once(<< >>) /\ Entries(<< >>) = {}
    BY DEF Once, Entries
  <2>3. CacheMax \in Nat
    BY ReductionAssumption
  <2>. QED
    BY <2>1, <2>2, <2>3 DEF CachesInv
<1>3. DataInv
  BY EmptySeq DEF Init, DataInv
<1>4. CopiesInv
  BY TextTypes DEF Init, CopiesInv, NotRun, Text, Texts
<1>. QED
  BY <1>1, <1>2, <1>3, <1>4 DEF TypesInv

LEMMA HitIsNamed ==
  ASSUME NEW S, NEW s \in Seq(S), NEW e \in Entries(s)
  PROVE  e \in S /\ Names(s, e.call)
<1>1. PICK i \in 1..Len(s) : e = s[i]
  BY DEF Entries
<1>. QED
  BY <1>1, ElementOfSeq DEF Names

\* A call that hits keeps its entry, as the newest one.
LEMMA TouchedHit ==
  ASSUME NEW S, NEW s \in Seq(S), NEW e \in Entries(s), Once(s)
  PROVE  /\ Touched(s, e) \in Seq(S) /\ Once(Touched(s, e))
         /\ Len(Touched(s, e)) = Len(s) /\ Entries(Touched(s, e)) = Entries(s)
<1>1. e \in S /\ Names(s, e.call)
  BY HitIsNamed
<1>2. /\ Touched(s, e) \in Seq(S) /\ Once(Touched(s, e))
      /\ Len(Touched(s, e)) = Len(s)
      /\ Entries(Touched(s, e)) = {x \in Entries(s) : x.call # e.call} \cup {e}
  BY <1>1, TouchedIs
<1>3. \A x \in Entries(s) : x.call = e.call => x = e
  BY DEF Entries, Once
<1>. QED
  BY <1>2, <1>3

LEMMA NegativeTypes ==
  ASSUME WorkersInv, CachesInv, [Next]_vars
  PROVE  negative' \in Seq(NegativeEntry) /\ Once(negative') /\ Len(negative') <= CacheMax
<1>. DEFINE Fine(s) == s \in Seq(NegativeEntry) /\ Once(s) /\ Len(s) <= CacheMax
<1>0. /\ negative \in Seq(NegativeEntry) /\ Once(negative) /\ Len(negative) <= CacheMax
      /\ Len(negative) \in Nat /\ CacheMax \in Nat /\ now \in Nat /\ NegativeTTL \in Nat
  BY ReductionAssumption, LenProperties DEF CachesInv, WorkersInv
<1>1. CASE UNCHANGED negative
  BY <1>0, <1>1
<1>2. CASE negative' = << >>
  <2>1. << >> \in Seq(NegativeEntry) /\ Len(<< >>) = 0
    BY EmptySeq
  <2>. QED
    BY <1>0, <1>2, <2>1 DEF Once
<1>3. ASSUME NEW w \in Workers, Gate(w) PROVE Fine(negative')
  <2>1. CASE UNCHANGED negative
    BY <1>0, <2>1
  <2>2. ASSUME NEW e \in Entries(negative), negative' = Touched(negative, e)
        PROVE  Fine(negative')
    BY <1>0, <2>2, TouchedHit
  <2>3. CASE negative' = Without(negative, job[w].call)
    <3>. DEFINE r == Without(negative, job[w].call)
    <3>1. /\ r \in Seq(NegativeEntry) /\ Once(r) /\ Len(r) \in Nat
          /\ Len(r) = IF Names(negative, job[w].call) THEN Len(negative) - 1 ELSE Len(negative)
      BY <1>0, WithoutIs
    <3>. HIDE DEF r
    <3>2. Len(r) <= CacheMax
      BY <1>0, <3>1
    <3>. QED
      BY <2>3, <3>1, <3>2 DEF r
  <2>. QED
    BY <1>3, <2>1, <2>2, <2>3 DEF Gate
<1>4. ASSUME NEW w \in Workers, NotUseful(w) PROVE Fine(negative')
  <2>. DEFINE e == [call |-> job[w].call, expires |-> now + NegativeTTL]
              p == Purged(negative)
              t == Touched(p, e)
  <2>1. e \in NegativeEntry
    <3>1. job[w].call \in Calls
      BY <1>4 DEF NotUseful, WorkersInv
    <3>2. now + NegativeTTL \in Nat
      BY <1>0
    <3>. QED
      BY <3>1, <3>2 DEF NegativeEntry
  <2>2. negative' = Trimmed(t)
    BY <1>4 DEF NotUseful
  <2>. HIDE DEF e
  <2>3. p \in Seq(NegativeEntry) /\ Once(p) /\ Len(p) <= Len(negative)
    BY <1>0, PurgedIs
  <2>. HIDE DEF p
  <2>4. /\ t \in Seq(NegativeEntry) /\ Once(t)
        /\ Len(t) = IF Names(p, e.call) THEN Len(p) ELSE Len(p) + 1
    BY <2>1, <2>3, TouchedIs
  <2>. HIDE DEF t
  <2>5. Len(t) <= CacheMax + 1
    <3>1. Len(p) \in Nat
      BY <2>3, LenProperties
    <3>. QED
      BY <1>0, <2>3, <2>4, <3>1
  <2>. QED
    BY <2>2, <2>4, <2>5, TrimmedIs
<1>5. ASSUME NEW w \in Workers,
             \/ Ready(w) \/ WriteSource(w) \/ Compress(w) \/ CompressFails(w)
             \/ Synthesize(w) \/ KeepSource(w) \/ Report(w) \/ Deliver(w)
             \/ WriteFails(w) \/ NextResult(w) \/ SendRequest(w) \/ LlmRequest(w)
             \/ \E c \in Calls : ToolExecution(w, c)
      PROVE  UNCHANGED negative
  BY <1>5
  DEF Ready, WriteSource, Compress, CompressFails, Synthesize, KeepSource, Report,
      Deliver, WriteFails, NextResult, SendRequest, LlmRequest, ToolExecution, caches
<1>6. CASE Tick \/ ProviderStops \/ ProviderStarts \/ UNCHANGED vars
  BY <1>1, <1>6 DEF Tick, ProviderStops, ProviderStarts, vars, caches
<1>7. CASE ProcessRestarts
  BY <1>2, <1>7 DEF ProcessRestarts
<1>. QED
  BY <1>1, <1>3, <1>4, <1>5, <1>6, <1>7 DEF Next, Work, Attempt

LEMMA CacheTypes ==
  ASSUME WorkersInv, CachesInv, [Next]_vars
  PROVE  /\ cache' \in Seq(CacheEntry) /\ Once(cache') /\ Len(cache') <= CacheMax
         /\ \A e \in Entries(cache') : IsMarker(e.text)
<1>. DEFINE Fine(s) == /\ s \in Seq(CacheEntry) /\ Once(s) /\ Len(s) <= CacheMax
                       /\ \A e \in Entries(s) : IsMarker(e.text)
<1>0. /\ Fine(cache) /\ Len(cache) \in Nat /\ CacheMax \in Nat
  BY ReductionAssumption, LenProperties DEF CachesInv
<1>1. CASE UNCHANGED cache
  BY <1>0, <1>1
<1>2. CASE cache' = << >>
  <2>1. << >> \in Seq(CacheEntry) /\ Len(<< >>) = 0
    BY EmptySeq
  <2>. QED
    BY <1>0, <1>2, <2>1 DEF Once, Entries
<1>3. ASSUME NEW w \in Workers, NextResult(w) PROVE Fine(cache')
  <2>1. ASSUME NEW e \in Entries(cache), cache' = Touched(cache, e)
        PROVE  Fine(cache')
    BY <1>0, <2>1, TouchedHit
  <2>. QED
    BY <1>0, <1>3, <2>1 DEF NextResult
<1>4. ASSUME NEW w \in Workers, Deliver(w) PROVE Fine(cache')
  <2>. DEFINE e == [call |-> job[w].call, text |-> job[w].text]
              t == Touched(cache, e)
  <2>1. CASE UNCHANGED cache
    BY <1>0, <2>1
  <2>2. CASE cache' = Trimmed(t) /\ IsMarker(job[w].text)
    <3>1. e \in CacheEntry /\ IsMarker(e.text)
      BY <1>4, <2>2 DEF Deliver, WorkersInv, CacheEntry, Jobs
    <3>. HIDE DEF e
    <3>2. /\ t \in Seq(CacheEntry) /\ Once(t)
          /\ Len(t) = IF Names(cache, e.call) THEN Len(cache) ELSE Len(cache) + 1
          /\ Entries(t) = {x \in Entries(cache) : x.call # e.call} \cup {e}
      BY <1>0, <3>1, TouchedIs
    <3>. HIDE DEF t
    <3>3. Len(t) <= CacheMax + 1 /\ \A x \in Entries(t) : IsMarker(x.text)
      BY <1>0, <3>1, <3>2
    <3>4. /\ Trimmed(t) \in Seq(CacheEntry) /\ Once(Trimmed(t))
          /\ Len(Trimmed(t)) <= CacheMax /\ Entries(Trimmed(t)) \subseteq Entries(t)
      BY <3>2, <3>3, TrimmedIs
    <3>. QED
      BY <2>2, <3>3, <3>4
  <2>. QED
    BY <1>4, <2>1, <2>2 DEF Deliver
<1>5. ASSUME NEW w \in Workers,
             (Attempt(w) /\ ~Deliver(w)) \/ SendRequest(w) \/ LlmRequest(w)
               \/ \E c \in Calls : ToolExecution(w, c)
      PROVE  UNCHANGED cache
  BY <1>5
  DEF Attempt, Gate, Ready, WriteSource, Compress, CompressFails, Synthesize,
      NotUseful, KeepSource, Report, WriteFails, SendRequest, LlmRequest,
      ToolExecution, caches
<1>6. CASE Tick \/ ProviderStops \/ ProviderStarts \/ UNCHANGED vars
  BY <1>1, <1>6 DEF Tick, ProviderStops, ProviderStarts, vars, caches
<1>7. CASE ProcessRestarts
  BY <1>2, <1>7 DEF ProcessRestarts
<1>. QED
  BY <1>1, <1>3, <1>4, <1>5, <1>6, <1>7 DEF Next, Work, Attempt

LEMMA DataTypes ==
  ASSUME WorkersInv, DataInv, [Next]_vars
  PROVE  DataInv'
<1>0. now \in Nat /\ NegativeTTL \in Nat
  BY ReductionAssumption DEF WorkersInv
<1>1. ASSUME UNCHANGED <<requests, up>>,
             UNCHANGED ledger, NEW C \in SUBSET Calls,
             held' \subseteq held \cup C, local' \subseteq local \cup C,
             \/ UNCHANGED sidecar
             \/ \E n, d : d \in Calls \cup {0} /\ sidecar' = Put(sidecar, n, d)
      PROVE  DataInv'
  BY <1>1 DEF DataInv, Put, ledger
<1>2. ASSUME NEW w \in Workers, pc[w] \notin {"idle", "next"}
      PROVE  job[w].call \in Calls
  BY <1>2 DEF WorkersInv
<1>3. CASE UNCHANGED <<requests, up, stores, ledger>>
  BY <1>3 DEF DataInv, stores, ledger
<1>4. ASSUME NEW w \in Workers,
             \/ WriteSource(w) \/ Compress(w) \/ Synthesize(w) \/ KeepSource(w)
             \/ WriteFails(w)
      PROVE  DataInv'
  <2>1. job[w].call \in Calls
    BY <1>2, <1>4 DEF WriteSource, Compress, Synthesize, KeepSource, WriteFails
  <2>2. /\ UNCHANGED <<requests, up>> /\ UNCHANGED ledger
        /\ held' \subseteq held \cup {job[w].call}
        /\ local' \subseteq local \cup {job[w].call}
        /\ \/ UNCHANGED sidecar
           \/ \E n : sidecar' = Put(sidecar, n, job[w].call)
           \/ \E n : sidecar' = Put(sidecar, n, 0)
    BY <1>4 DEF WriteSource, Compress, Synthesize, KeepSource, WriteFails,
                Retained, NotRetained, stores
  <2>3. {job[w].call} \in SUBSET Calls
    BY <2>1
  <2>. QED
    BY <1>1, <2>1, <2>2, <2>3
<1>5. ASSUME NEW w \in Workers, NotUseful(w) PROVE DataInv'
  <2>1. job[w].call \in Calls /\ now + NegativeTTL \in Nat
    BY <1>0, <1>2, <1>5 DEF NotUseful
  <2>. QED
    BY <1>5, <2>1 DEF NotUseful, DataInv, stores
<1>6. ASSUME NEW w \in Workers, Report(w) PROVE DataInv'
  <2>1. job[w].call \in Calls
    BY <1>2, <1>6 DEF Report
  <2>2. /\ logged' \in {logged, logged \cup {job[w].call}}
        /\ savings' \in {savings, [savings EXCEPT ![job[w].call] = @ + 1]}
        /\ UNCHANGED <<requests, up, stores, refused>>
    BY <1>6 DEF Report, Savings
  <2>. QED
    BY <2>1, <2>2 DEF DataInv, stores
<1>7. ASSUME NEW w \in Workers, LlmRequest(w) PROVE DataInv'
  BY <1>7 DEF LlmRequest, DataInv, stores, ledger
<1>8. ASSUME NEW w \in Workers,
             \/ Gate(w) \/ Ready(w) \/ CompressFails(w) \/ Deliver(w)
             \/ NextResult(w) \/ SendRequest(w) \/ \E c \in Calls : ToolExecution(w, c)
      PROVE  UNCHANGED <<requests, up, stores, ledger>>
  BY <1>8
  DEF Gate, Ready, CompressFails, Deliver, NextResult, SendRequest, ToolExecution
<1>9. CASE Tick \/ UNCHANGED vars
  BY <1>3, <1>9 DEF Tick, vars
<1>10. CASE ProviderStops
  BY <1>10 DEF ProviderStops, DataInv, ledger
<1>11. CASE ProviderStarts
  BY <1>11 DEF ProviderStarts, DataInv, stores, ledger
<1>12. CASE ProcessRestarts
  BY <1>12 DEF ProcessRestarts, DataInv, stores
<1>. QED
  BY <1>3, <1>4, <1>5, <1>6, <1>7, <1>8, <1>9, <1>10, <1>11, <1>12
  DEF Next, Work, Attempt

LEMMA CopiesTypes ==
  ASSUME WorkersInv, CachesInv, CopiesInv, [Next]_vars
  PROVE  CopiesInv'
<1>1. CASE UNCHANGED <<conv, display>>
  BY <1>1 DEF CopiesInv, display
<1>2. ASSUME NEW w \in Workers, NEW c \in Calls, ToolExecution(w, c)
      PROVE  CopiesInv'
  <2>1. conv' = [conv EXCEPT ![c] = Running] /\ UNCHANGED display
    BY <1>2 DEF ToolExecution
  <2>2. Running \in Texts
    BY DEF Running, Text, Texts
  <2>. QED
    BY <2>1, <2>2 DEF CopiesInv, display
<1>3. ASSUME NEW w \in Workers, LlmRequest(w) PROVE CopiesInv'
  <2>. DEFINE S == {c \in Calls : conv[c] \notin {NotRun, Running}}
  <2>1. UNCHANGED <<conv, shown>>
        /\ view' = [view EXCEPT ![w] = [c \in S |-> conv[c]]]
    BY <1>3 DEF LlmRequest
  <2>. QED
    BY <2>1 DEF CopiesInv
<1>4. ASSUME NEW w \in Workers, NextResult(w) PROVE CopiesInv'
  <2>1. UNCHANGED <<conv, shown>>
    BY <1>4 DEF NextResult
  <2>2. \/ view' = view
        \/ \E e \in Entries(cache) : view' = [view EXCEPT ![w][e.call] = e.text]
    BY <1>4 DEF NextResult
  <2>3. \A e \in Entries(cache) : e.text \in Texts
    <3>1. cache \in Seq(CacheEntry)
      BY DEF CachesInv
    <3>2. \A e \in Entries(cache) : e \in CacheEntry
      BY <3>1, HitIsNamed
    <3>. QED
      BY <3>2 DEF CacheEntry
  <2>4. CASE view' = view
    BY <2>1, <2>4 DEF CopiesInv
  <2>5. ASSUME NEW e \in Entries(cache), view' = [view EXCEPT ![w][e.call] = e.text]
        PROVE  CopiesInv'
    <3>1. DOMAIN view' = Workers /\ \A v \in Workers : DOMAIN view'[v] = DOMAIN view[v]
      BY <2>5 DEF CopiesInv
    <3>2. \A v \in Workers : \A c \in DOMAIN view[v] : view'[v][c] \in {view[v][c], e.text}
      BY <2>5 DEF CopiesInv
    <3>. QED
      BY <2>1, <2>3, <2>5, <3>1, <3>2 DEF CopiesInv
  <2>. QED
    BY <2>2, <2>4, <2>5
<1>5. ASSUME NEW w \in Workers, SendRequest(w) PROVE CopiesInv'
  <2>1. /\ conv' = conv /\ view' = [view EXCEPT ![w] = << >>]
        /\ shown' = [c \in Calls |-> IF c \in DOMAIN view[w] THEN view[w][c]
                                                             ELSE shown[c]]
    BY <1>5 DEF SendRequest
  <2>. QED
    BY <2>1 DEF CopiesInv
<1>6. ASSUME NEW w \in Workers, Deliver(w) PROVE CopiesInv'
  <2>. DEFINE c == job[w].call
              t == job[w].text
  <2>1. shown' = shown /\ c \in Calls /\ t \in Texts
    BY <1>6 DEF Deliver, WorkersInv, Jobs
  <2>2. CASE job[w].surface = "tool"
    <3>1. view' = view /\ conv' = [conv EXCEPT ![c] = t]
      BY <1>6, <2>2 DEF Deliver
    <3>. QED
      BY <2>1, <3>1 DEF CopiesInv
  <2>3. CASE job[w].surface = "request"
    <3>1. conv' = conv
          /\ view' = [view EXCEPT ![w][c] = IF IsMarker(t) THEN t ELSE @]
      BY <1>6, <2>3 DEF Deliver
    <3>. QED
      BY <2>1, <3>1 DEF CopiesInv
  <2>. QED
    BY <1>6, <2>2, <2>3 DEF Deliver
<1>7. ASSUME NEW w \in Workers, WriteFails(w) PROVE CopiesInv'
  <2>1. view' = [view EXCEPT ![w] = << >>]
    BY <1>7 DEF WriteFails
  <2>2. \/ UNCHANGED shown /\ conv' = [conv EXCEPT ![job[w].call] = Original]
        \/ /\ UNCHANGED conv
           /\ shown' = [c \in Calls |-> IF c \in DOMAIN view[w] THEN conv[c]
                                                                ELSE shown[c]]
    BY <1>7 DEF WriteFails
  <2>. QED
    BY <2>1, <2>2, TextTypes DEF CopiesInv
<1>8. ASSUME NEW w \in Workers,
             \/ Gate(w) \/ Ready(w) \/ WriteSource(w) \/ Compress(w)
             \/ CompressFails(w) \/ Synthesize(w) \/ NotUseful(w)
             \/ KeepSource(w) \/ Report(w)
      PROVE  UNCHANGED <<conv, display>>
  BY <1>8
  DEF Gate, Ready, WriteSource, Compress, CompressFails, Synthesize, NotUseful,
      KeepSource, Report
<1>9. CASE Tick \/ ProviderStops \/ ProviderStarts \/ UNCHANGED vars
  BY <1>1, <1>9 DEF Tick, ProviderStops, ProviderStarts, vars
<1>10. CASE ProcessRestarts
  BY <1>10 DEF ProcessRestarts, CopiesInv
<1>. QED
  BY <1>1, <1>2, <1>3, <1>4, <1>5, <1>6, <1>7, <1>8, <1>9, <1>10
  DEF Next, Work, Attempt

LEMMA TypesStep == TypesInv /\ [Next]_vars => TypesInv'
<1>. SUFFICES ASSUME TypesInv, [Next]_vars PROVE TypesInv'
  OBVIOUS
<1>1. WorkersInv' /\ DataInv' /\ CopiesInv'
  BY WorkersStep, DataTypes, CopiesTypes DEF TypesInv
<1>2. CachesInv'
  BY NegativeTypes, CacheTypes DEF TypesInv, CachesInv, Once, Entries
<1>. QED
  BY <1>1, <1>2 DEF TypesInv

\* TypeOK for every session: both caches stay within llm_request_cache_max
\* with one entry per call (reduction.py:66, middleware_request.py:71), though
\* hits move their entries and outdated ones are dropped in between, and no
\* worker is anywhere but where the code can be.
THEOREM TypesHold == Spec => []TypeOK
BY InitTypes, TypesStep, TypesSuffice, PTL DEF Spec

-----------------------------------------------------------------------------
(* The inductive invariant behind NoRepeatedWork, in a cache that has room *)
(* for every call: a negative outcome is there until it has run out.       *)

RefusedInv == \A c \in Calls : refused[c] > now =>
  \E e \in Entries(negative) : e.call = c /\ e.expires >= refused[c]

LEMMA OnceIsShort ==
  ASSUME NEW S, \A x \in S : x.call \in Calls, NEW s \in Seq(S), Once(s)
  PROVE  Len(s) <= NCalls
<1>. DEFINE f == [i \in 1..Len(s) |-> s[i].call]
<1>1. Len(s) \in Nat /\ NCalls \in Nat /\ \A i \in 1..Len(s) : s[i].call \in Calls
  <2>1. \A i \in 1..Len(s) : s[i] \in S
    BY ElementOfSeq
  <2>. QED
    BY <2>1, LenProperties, ReductionAssumption
<1>2. f \in [1..Len(s) -> Calls]
  BY <1>1
<1>3. f \in Injection(1..Len(s), Calls)
  BY <1>2 DEF Injection, IsInjective, Once
<1>. HIDE DEF f
<1>4. IsFiniteSet(Calls) /\ Cardinality(Calls) = NCalls /\ Cardinality(1..Len(s)) = Len(s)
  <2>1. /\ IsFiniteSet(1..NCalls)
        /\ Cardinality(1..NCalls) = IF 1 > NCalls THEN 0 ELSE NCalls - 1 + 1
    BY <1>1, FS_Interval
  <2>2. Cardinality(1..Len(s)) = IF 1 > Len(s) THEN 0 ELSE Len(s) - 1 + 1
    BY <1>1, FS_Interval
  <2>. QED
    BY <1>1, <2>1, <2>2 DEF Calls
<1>. QED
  BY <1>3, <1>4, FS_Injection

LEMMA RefusedStep ==
  ASSUME CacheMax >= NCalls, TypesInv, RefusedInv, [Next]_vars
  PROVE  RefusedInv'
<1>0. /\ negative \in Seq(NegativeEntry) /\ Once(negative) /\ now \in Nat
      /\ refused \in [Calls -> Nat] /\ NegativeTTL \in Nat /\ NCalls \in Nat
      /\ CacheMax \in Nat /\ \A e \in Entries(negative) : e.expires \in Nat
  <2>1. /\ negative \in Seq(NegativeEntry) /\ Once(negative) /\ now \in Nat
        /\ refused \in [Calls -> Nat] /\ NegativeTTL \in Nat /\ NCalls \in Nat
        /\ CacheMax \in Nat
    BY ReductionAssumption DEF TypesInv, CachesInv, WorkersInv, DataInv
  <2>2. \A e \in Entries(negative) : e \in NegativeEntry
    BY <2>1, HitIsNamed
  <2>. QED
    BY <2>1, <2>2 DEF NegativeEntry
<1>1. ASSUME UNCHANGED <<now, refused>>,
             \A e \in Entries(negative) : e.expires > now => e \in Entries(negative')
      PROVE  RefusedInv'
  <2>1. Entries(negative') = Entries(negative)'
    BY DEF Entries
  <2>. QED
    BY <1>0, <1>1, <2>1 DEF RefusedInv
<1>2. ASSUME NEW w \in Workers, Gate(w) PROVE RefusedInv'
  <2>1. CASE UNCHANGED negative
    BY <1>1, <1>2, <2>1 DEF Gate, ledger
  <2>2. ASSUME NEW e \in Entries(negative), negative' = Touched(negative, e)
        PROVE  RefusedInv'
    <3>1. Entries(negative') = Entries(negative)
      BY <1>0, <2>2, TouchedHit
    <3>. QED
      BY <1>1, <1>2, <3>1 DEF Gate, ledger
  <2>3. CASE negative' = Without(negative, job[w].call) /\ ~NegativeHit(job[w].call)
    <3>1. Entries(negative') = {e \in Entries(negative) : e.call # job[w].call}
      BY <1>0, <2>3, WithoutIs
    <3>2. \A e \in Entries(negative) : e.call = job[w].call => ~(e.expires > now)
      BY <2>3 DEF NegativeHit
    <3>3. \A e \in Entries(negative) : e.expires > now => e \in Entries(negative')
      BY <3>1, <3>2
    <3>. QED
      BY <1>1, <1>2, <3>3 DEF Gate, ledger
  <2>. QED
    BY <1>2, <2>1, <2>2, <2>3 DEF Gate
<1>3. ASSUME NEW w \in Workers, NotUseful(w) PROVE RefusedInv'
  <2>. DEFINE e == [call |-> job[w].call, expires |-> now + NegativeTTL]
              p == Purged(negative)
              t == Touched(p, e)
  <2>1. e \in NegativeEntry /\ e.call = job[w].call /\ e.expires = now + NegativeTTL
    <3>1. job[w].call \in Calls
      BY <1>3 DEF NotUseful, TypesInv, WorkersInv
    <3>2. now + NegativeTTL \in Nat
      BY <1>0
    <3>. QED
      BY <3>1, <3>2 DEF NegativeEntry
  <2>2. /\ negative' = Trimmed(t) /\ now' = now
        /\ refused' = [refused EXCEPT ![e.call] = e.expires]
    BY <1>3 DEF NotUseful
  <2>. HIDE DEF e
  <2>3. /\ p \in Seq(NegativeEntry) /\ Once(p)
        /\ Entries(p) = {x \in Entries(negative) : x.expires > now}
    BY <1>0, PurgedIs
  <2>. HIDE DEF p
  <2>4. /\ t \in Seq(NegativeEntry) /\ Once(t)
        /\ Entries(t) = {x \in Entries(p) : x.call # e.call} \cup {e}
    BY <2>1, <2>3, TouchedIs
  <2>. HIDE DEF t
  <2>5. negative' = t
    <3>1. Len(t) <= NCalls /\ Len(t) \in Nat
      <4>1. \A x \in NegativeEntry : x.call \in Calls
        BY DEF NegativeEntry
      <4>. QED
        BY <2>4, <4>1, OnceIsShort, LenProperties
    <3>2. ~(Len(t) > CacheMax)
      BY <1>0, <3>1
    <3>. QED
      BY <2>2, <3>2 DEF Trimmed
  <2>6. Entries(negative)' = Entries(t)
    BY <2>5 DEF Entries
  <2>7. ASSUME NEW c \in Calls, refused'[c] > now'
        PROVE  \E x \in Entries(t) : x.call = c /\ x.expires >= refused'[c]
    <3>1. CASE c = e.call
      <4>1. e \in Entries(t) /\ refused'[c] = e.expires /\ e.expires \in Nat
        BY <1>0, <2>1, <2>2, <2>4, <3>1
      <4>. QED
        BY <3>1, <4>1
    <3>2. CASE c # e.call
      <4>1. refused'[c] = refused[c] /\ refused[c] > now
        BY <1>0, <2>2, <2>7, <3>2
      <4>2. PICK x \in Entries(negative) : x.call = c /\ x.expires >= refused[c]
        BY <4>1 DEF RefusedInv
      <4>3. x.expires > now
        BY <1>0, <4>1, <4>2
      <4>4. x \in Entries(t)
        BY <2>3, <2>4, <3>2, <4>2, <4>3
      <4>. QED
        BY <4>1, <4>2, <4>4
    <3>. QED
      BY <3>1, <3>2
  <2>. QED
    BY <2>6, <2>7 DEF RefusedInv
<1>4. ASSUME UNCHANGED <<now, refused, negative>> PROVE RefusedInv'
  BY <1>4 DEF RefusedInv, Entries
<1>5. ASSUME NEW w \in Workers,
             \/ Ready(w) \/ WriteSource(w) \/ Compress(w) \/ CompressFails(w)
             \/ Synthesize(w) \/ KeepSource(w) \/ Report(w) \/ Deliver(w)
             \/ WriteFails(w) \/ NextResult(w) \/ SendRequest(w) \/ LlmRequest(w)
             \/ \E c \in Calls : ToolExecution(w, c)
      PROVE  UNCHANGED <<now, refused, negative>>
  BY <1>5
  DEF Ready, WriteSource, Compress, CompressFails, Synthesize, KeepSource, Report,
      Deliver, WriteFails, NextResult, SendRequest, LlmRequest, ToolExecution,
      caches, ledger
<1>6. CASE ProviderStops \/ ProviderStarts \/ UNCHANGED vars
  BY <1>4, <1>6 DEF ProviderStops, ProviderStarts, vars, caches, ledger
<1>7. CASE Tick
  <2>1. UNCHANGED <<refused, negative>> /\ now' = now + 1
    BY <1>7 DEF Tick, caches, ledger
  <2>2. \A c \in Calls : refused[c] > now + 1 => refused[c] > now
    BY <1>0
  <2>3. Entries(negative)' = Entries(negative)
    BY <2>1 DEF Entries
  <2>. QED
    BY <2>1, <2>2, <2>3 DEF RefusedInv
<1>8. CASE ProcessRestarts
  <2>1. now' = now /\ refused' = [c \in Calls |-> 0]
    BY <1>8 DEF ProcessRestarts
  <2>2. \A c \in Calls : ~(refused'[c] > now')
    BY <1>0, <2>1
  <2>. QED
    BY <2>2 DEF RefusedInv
<1>. QED
  BY <1>2, <1>3, <1>4, <1>5, <1>6, <1>7, <1>8 DEF Next, Work, Attempt

\* Only Gate lets a call go on, and only one that is not remembered.
LEMMA OnlyUnremembered ==
  ASSUME TypesInv, RefusedInv, [Next]_vars,
         NEW w \in Workers, pc[w] = "gate", pc'[w] = "ready"
  PROVE  refused[job[w].call] <= now
<1>0. /\ pc \in [Workers -> Labels] /\ job[w].call \in Calls /\ now \in Nat
      /\ refused \in [Calls -> Nat]
  BY DEF TypesInv, WorkersInv, DataInv
<1>1. CASE Gate(w)
  <2>1. ~NegativeHit(job[w].call)
    BY <1>0, <1>1 DEF Gate, Settle, Goto
  <2>2. CASE refused[job[w].call] > now
    <3>1. PICK e \in Entries(negative) :
            e.call = job[w].call /\ e.expires >= refused[job[w].call]
      BY <1>0, <2>2 DEF RefusedInv
    <3>2. e.expires \in Nat
      <4>1. negative \in Seq(NegativeEntry)
        BY DEF TypesInv, CachesInv
      <4>2. e \in NegativeEntry
        BY <4>1, HitIsNamed
      <4>. QED
        BY <4>2 DEF NegativeEntry
    <3>3. e.expires > now
      BY <1>0, <2>2, <3>1, <3>2
    <3>. QED
      BY <2>1, <3>1, <3>3 DEF NegativeHit
  <2>. QED
    BY <1>0, <2>2
<1>2. ASSUME NEW v \in Workers, v # w, Work(v) \/ LlmRequest(v)
               \/ \E c \in Calls : ToolExecution(v, c)
      PROVE  pc'[w] = pc[w]
  BY <1>0, <1>2
  DEF Work, Attempt, Gate, Ready, WriteSource, Compress, CompressFails, Synthesize,
      NotUseful, KeepSource, Report, Deliver, WriteFails, NextResult, SendRequest,
      LlmRequest, ToolExecution, Goto, Settle
<1>3. ASSUME Work(w) \/ LlmRequest(w) \/ \E c \in Calls : ToolExecution(w, c)
      PROVE  Gate(w)
  BY <1>3
  DEF Work, Attempt, Ready, WriteSource, Compress, CompressFails, Synthesize,
      NotUseful, KeepSource, Report, Deliver, WriteFails, NextResult, SendRequest,
      LlmRequest, ToolExecution
<1>4. CASE Tick \/ ProviderStops \/ ProviderStarts \/ UNCHANGED vars
  BY <1>4 DEF Tick, ProviderStops, ProviderStarts, vars
<1>5. CASE ProcessRestarts
  BY <1>5 DEF ProcessRestarts
<1>. QED
  BY <1>1, <1>2, <1>3, <1>4, <1>5 DEF Next

\* NoRepeatedWork for every session whose calls fit into the cache of negative
\* outcomes (reduction.py:52): whatever other threads add, purge or touch, a
\* source whose compression was of no use is not offered again too early.
THEOREM WorkIsNotRepeated == CacheMax >= NCalls => (Spec => NoRepeatedWork)
<1>. SUFFICES ASSUME CacheMax >= NCalls PROVE Spec => NoRepeatedWork
  OBVIOUS
<1>1. Init => TypesInv /\ RefusedInv
  <2>1. ASSUME Init PROVE RefusedInv
    <3>1. now = 0 /\ \A c \in Calls : refused[c] = 0
      BY <2>1 DEF Init
    <3>. QED
      BY <3>1 DEF RefusedInv
  <2>. QED
    BY <2>1, InitTypes
<1>2. TypesInv /\ RefusedInv /\ [Next]_vars => TypesInv' /\ RefusedInv'
  BY TypesStep, RefusedStep
<1>3. TypesInv /\ RefusedInv /\ [Next]_vars =>
        [\A w \in Workers : pc[w] = "gate" /\ pc'[w] = "ready"
                              => refused[job[w].call] <= now]_vars
  BY OnlyUnremembered
<1>. QED
  BY <1>1, <1>2, <1>3, PTL DEF Spec, NoRepeatedWork

-----------------------------------------------------------------------------
(* The inductive invariant behind StableReplacement, for one request at a  *)
(* time, in a cache that has room for every call and is not lost: what     *)
(* stands for a result is the marker in the conversation, or the one in    *)
(* the cache if the conversation has the result itself; and a copy that is *)
(* gone through agrees with that as far as it has been gone through.       *)

Steady ==
  /\ \E w : Workers = {w}
  /\ Buried = {} /\ CacheMax >= NCalls
  /\ Faults \cap {"write", "process"} = {}

Stands(c, t) == t = conv[c] \/ \E e \in Entries(cache) : e.call = c /\ e.text = t
Ahead(w, c) == c \in job[w].todo \/ AtRequest(w, c)

Agreed(w, c) ==
  /\ IsMarker(conv[c]) => view[w][c] = conv[c]
  /\ \A e \in Entries(cache) : e.call = c => view[w][c] = e.text
  /\ IsMarker(view[w][c]) => Stands(c, view[w][c])

CopyAgrees(w) ==
  /\ job[w].surface # "request" => DOMAIN view[w] = {}
  /\ job[w].todo \subseteq DOMAIN view[w]
  /\ \A c \in Calls : AtRequest(w, c) =>
       /\ c \in DOMAIN view[w] /\ c \notin job[w].todo
       /\ \A e \in Entries(cache) : e.call # c
  /\ \A c \in DOMAIN view[w] :
       IF Ahead(w, c) THEN view[w][c] = conv[c] ELSE Agreed(w, c)

ShownStands == \A c \in Calls : IsMarker(shown[c]) => Stands(c, shown[c])
CachedForOriginals == \A e \in Entries(cache) : conv[e.call] = Original
SteadyInv ==
  ShownStands /\ CachedForOriginals /\ \A w \in Workers : CopyAgrees(w)

LEMMA InitSteady == Init => SteadyInv
<1>. SUFFICES ASSUME Init PROVE SteadyInv
  OBVIOUS
<1>1. Entries(cache) = {} /\ \A c \in Calls : ~IsMarker(shown[c])
  BY TextTypes DEF Init, Entries
<1>2. ASSUME NEW w \in Workers PROVE CopyAgrees(w)
  <2>1. DOMAIN view[w] = {} /\ job[w] = NoJob /\ pc[w] = "idle"
    BY DEF Init
  <2>. QED
    BY <2>1 DEF CopyAgrees, NoJob, AtRequest
<1>. QED
  BY <1>1, <1>2 DEF SteadyInv, ShownStands, CachedForOriginals

\* Nothing is shown or cached of a call whose result has not come.
LEMMA PendingIsNew ==
  ASSUME SteadyInv, NEW c \in Calls, Pending(conv[c])
  PROVE  ~IsMarker(shown[c]) /\ \A e \in Entries(cache) : e.call # c
<1>1. ~IsMarker(conv[c]) /\ conv[c] # Original
  BY DEF Pending, IsMarker, Original, Text
<1>2. \A e \in Entries(cache) : e.call # c
  BY <1>1 DEF SteadyInv, CachedForOriginals
<1>. QED
  BY <1>1, <1>2 DEF SteadyInv, ShownStands, Stands

\* A result comes while no copy is gone through.
LEMMA ResultComes ==
  ASSUME WorkersInv, CopiesInv, SteadyInv, NEW w \in Workers, Workers = {w},
         NEW c \in Calls, Pending(conv[c]), NEW t,
         conv' = [conv EXCEPT ![c] = t], UNCHANGED <<cache, shown, view>>,
         job[w].surface # "request", job'[w].surface # "request", job'[w].todo = {}
  PROVE  SteadyInv'
<1>1. ~IsMarker(shown[c]) /\ \A e \in Entries(cache) : e.call # c
  BY PendingIsNew
<1>2. Entries(cache)' = Entries(cache)
  BY DEF Entries
<1>3. \A d \in Calls : d # c => conv'[d] = conv[d]
  BY DEF CopiesInv
<1>4. ShownStands'
  BY <1>1, <1>2, <1>3 DEF SteadyInv, ShownStands, Stands
<1>5. CachedForOriginals'
  <2>1. \A e \in Entries(cache) : conv'[e.call] = conv[e.call]
    BY <1>1 DEF CopiesInv
  <2>. QED
    BY <1>2, <2>1 DEF SteadyInv, CachedForOriginals
<1>6. DOMAIN view'[w] = {}
  BY DEF SteadyInv, CopyAgrees
<1>7. CopyAgrees(w)'
  BY <1>6 DEF CopyAgrees, AtRequest
<1>. QED
  BY <1>4, <1>5, <1>7 DEF SteadyInv

LEMMA ToolSteady ==
  ASSUME Steady, WorkersInv, CountInv, CopiesInv, SteadyInv, NEW w \in Workers,
         (\E c \in Calls : ToolExecution(w, c))
           \/ (Deliver(w) /\ job[w].surface = "tool")
  PROVE  SteadyInv'
<1>0. Workers = {w} /\ job \in [Workers -> Jobs]
  BY DEF Steady, WorkersInv
<1>1. ASSUME NEW c \in Calls, ToolExecution(w, c)
      PROVE  SteadyInv'
  <2>1. /\ Pending(conv[c]) /\ conv' = [conv EXCEPT ![c] = Running]
        /\ UNCHANGED <<cache, shown, view>>
        /\ job' = [job EXCEPT ![w] = [NoJob EXCEPT !.call = c, !.surface = "tool"]]
    BY <1>1, TextTypes DEF ToolExecution, caches, display
  <2>2. job[w].surface # "request"
    BY <1>1 DEF ToolExecution, WorkersInv
  <2>3. job'[w].surface # "request" /\ job'[w].todo = {}
    BY <1>0, <2>1 DEF NoJob
  <2>. QED
    BY <1>0, <2>1, <2>2, <2>3, ResultComes
<1>2. CASE Deliver(w) /\ job[w].surface = "tool"
  <2>. DEFINE c == job[w].call
              t == job[w].text
  <2>1. c \in Calls /\ conv[c] = Running
    BY <1>2 DEF Deliver, WorkersInv, CountInv, ConvInv, AtTool
  <2>2. /\ conv' = [conv EXCEPT ![c] = t] /\ UNCHANGED <<cache, shown, view>>
        /\ job' = [job EXCEPT ![w] = NoJob]
    BY <1>2 DEF Deliver
  <2>3. job'[w].surface # "request" /\ job'[w].todo = {}
    BY <1>0, <2>2 DEF NoJob
  <2>4. Pending(conv[c])
    BY <2>1, TextTypes
  <2>. QED
    BY <1>0, <1>2, <2>1, <2>2, <2>3, <2>4, ResultComes
<1>. QED
  BY <1>1, <1>2

LEMMA RequestSteady ==
  ASSUME Steady, WorkersInv, CopiesInv, SteadyInv, NEW w \in Workers, LlmRequest(w)
  PROVE  SteadyInv'
<1>. DEFINE S == {c \in Calls : conv[c] \notin {NotRun, Running}}
<1>0. Workers = {w} /\ job \in [Workers -> Jobs] /\ DOMAIN view = Workers
      /\ DOMAIN pc = Workers
  BY DEF Steady, WorkersInv, CopiesInv
<1>1. /\ view' = [view EXCEPT ![w] = [c \in S |-> conv[c]]]
      /\ job' = [job EXCEPT ![w] = [NoJob EXCEPT !.surface = "request", !.todo = S]]
      /\ pc' = [pc EXCEPT ![w] = "next"] /\ UNCHANGED <<conv, shown, cache>>
  BY DEF LlmRequest, Goto, caches
<1>2. /\ view'[w] = [c \in S |-> conv[c]] /\ job'[w].surface = "request"
      /\ job'[w].todo = S /\ pc'[w] = "next"
  BY <1>0, <1>1 DEF NoJob
<1>3. Entries(cache)' = Entries(cache)
  BY <1>1 DEF Entries
<1>4. ShownStands' /\ CachedForOriginals'
  BY <1>1, <1>3 DEF SteadyInv, ShownStands, CachedForOriginals, Stands
<1>5. CopyAgrees(w)'
  <2>1. DOMAIN view'[w] = S /\ \A c \in S : view'[w][c] = conv[c]
    BY <1>2
  <2>2. conv' = conv
    BY <1>1
  <2>. QED
    BY <1>2, <2>1, <2>2 DEF CopyAgrees, Ahead, AtRequest
<1>. QED
  BY <1>0, <1>4, <1>5 DEF SteadyInv

\* The steps of an attempt but the last touch none of this.
LEMMA AttemptSteady ==
  ASSUME WorkersInv, SteadyInv, NEW w \in Workers,
         \/ Gate(w) \/ Ready(w) \/ WriteSource(w) \/ Compress(w)
         \/ CompressFails(w) \/ Synthesize(w) \/ NotUseful(w) \/ KeepSource(w)
         \/ Report(w)
  PROVE  SteadyInv'
<1>1. UNCHANGED <<conv, shown, view, cache>>
  BY DEF Gate, Ready, WriteSource, Compress, CompressFails, Synthesize, NotUseful,
         KeepSource, Report, display, caches
<1>2. /\ pc[w] \notin {"idle", "next"} /\ pc'[w] # "next"
      /\ \A v \in Workers : v # w => pc'[v] = pc[v]
      /\ \A v \in Workers : job'[v].surface = job[v].surface
           /\ job'[v].call = job[v].call /\ job'[v].todo = job[v].todo
  <2>0. pc \in [Workers -> Labels] /\ job \in [Workers -> Jobs]
    BY DEF WorkersInv
  <2>1. CASE Report(w)
    BY <2>0, <2>1 DEF Report, Goto
  <2>2. CASE ~Report(w)
    <3>1. /\ pc[w] \notin {"idle", "next"}
          /\ \E j \in Jobs, l \in Labels \ {"idle", "next"} :
              /\ job' = [job EXCEPT ![w] = j] /\ pc' = [pc EXCEPT ![w] = l]
              /\ j.surface = job[w].surface /\ j.call = job[w].call
              /\ j.todo = job[w].todo
      BY <2>2, AttemptMoves
    <3>. QED
      BY <2>0, <3>1
  <2>. QED
    BY <2>1, <2>2
<1>3. Entries(cache)' = Entries(cache)
  BY <1>1 DEF Entries
<1>4. ShownStands' /\ CachedForOriginals'
  BY <1>1, <1>3 DEF SteadyInv, ShownStands, CachedForOriginals, Stands
<1>5. ASSUME NEW v \in Workers PROVE CopyAgrees(v)'
  <2>1. \A c \in Calls : AtRequest(v, c)' <=> AtRequest(v, c)
    BY <1>2 DEF AtRequest
  <2>2. job'[v].todo = job[v].todo /\ job'[v].surface = job[v].surface
    BY <1>2
  <2>3. \A c : Ahead(v, c)' <=> Ahead(v, c)
    BY <1>2 DEF Ahead, AtRequest
  <2>4. \A c : Agreed(v, c)' <=> Agreed(v, c)
    BY <1>1, <1>3 DEF Agreed, Stands
  <2>5. CopyAgrees(v)
    BY DEF SteadyInv
  <2>. QED
    BY <1>1, <1>3, <2>1, <2>2, <2>3, <2>4, <2>5 DEF CopyAgrees
<1>. QED
  BY <1>4, <1>5 DEF SteadyInv

\* A copy is gone through one result further.
LEMMA NextSteady ==
  ASSUME Steady, TypesInv, CountInv, SteadyInv, NEW w \in Workers, NextResult(w)
  PROVE  SteadyInv'
<1>0. /\ Workers = {w} /\ Buried = {} /\ job \in [Workers -> Jobs]
      /\ pc \in [Workers -> Labels] /\ DOMAIN view = Workers
      /\ cache \in Seq(CacheEntry) /\ Once(cache)
      /\ \A e \in Entries(cache) : IsMarker(e.text)
  BY DEF Steady, TypesInv, WorkersInv, CachesInv, CopiesInv
<1>. DEFINE Ends(c) ==
       /\ Entries(cache') = Entries(cache)
       /\ \A d \in DOMAIN view'[w] : d # c => view'[w][d] = view[w][d]
       /\ DOMAIN view'[w] = DOMAIN view[w]
       /\ \/ pc'[w] = "next" /\ view'[w][c] = conv[c] /\ IsMarker(conv[c])
          \/ /\ pc'[w] = "next"
             /\ \E e \in Entries(cache) : e.call = c /\ view'[w][c] = e.text
          \/ /\ pc'[w] = "gate" /\ view'[w][c] = conv[c]
             /\ \A e \in Entries(cache) : e.call # c
<1>1. PICK c \in job[w].todo :
        /\ job' = [job EXCEPT ![w].todo = @ \ {c}, ![w].call = c]
        /\ UNCHANGED <<conv, shown>> /\ pc[w] = "next"
        /\ \/ AlreadyCompressed(c) /\ UNCHANGED <<cache, view, pc>>
           \/ /\ \E e \in {e \in Entries(cache) : e.call = c} :
                  /\ cache' = Touched(cache, e)
                  /\ view' = [view EXCEPT ![w][c] = e.text]
              /\ UNCHANGED pc
           \/ /\ {e \in Entries(cache) : e.call = c} = {}
              /\ pc' = [pc EXCEPT ![w] = "gate"] /\ UNCHANGED <<cache, view>>
  BY DEF NextResult, Goto
<1>2. /\ job[w].surface = "request" /\ c \in DOMAIN view[w] /\ c \in Calls
      /\ CopyAgrees(w) /\ view[w][c] = conv[c]
  <2>1. job[w].surface = "request" /\ CopyAgrees(w)
    BY <1>1 DEF TypesInv, WorkersInv, SteadyInv
  <2>2. c \in DOMAIN view[w]
    BY <1>1, <2>1 DEF CopyAgrees
  <2>3. c \in Calls
    BY <2>2 DEF TypesInv, CopiesInv
  <2>. QED
    BY <1>1, <2>1, <2>2, <2>3 DEF CopyAgrees, Ahead
<1>3. /\ job'[w].surface = "request" /\ job'[w].call = c
      /\ job'[w].todo = job[w].todo \ {c}
  BY <1>0, <1>1, <1>2 DEF Jobs
<1>4. Ends(c)
  <2>1. CASE AlreadyCompressed(c) /\ UNCHANGED <<cache, view, pc>>
    BY <1>1, <1>2, <2>1 DEF AlreadyCompressed
  <2>2. ASSUME NEW e \in Entries(cache), e.call = c, cache' = Touched(cache, e),
               view' = [view EXCEPT ![w][c] = e.text], UNCHANGED pc
        PROVE  Ends(c)
    <3>1. Entries(cache') = Entries(cache)
      BY <1>0, <2>2, TouchedHit
    <3>2. /\ DOMAIN view'[w] = DOMAIN view[w] /\ view'[w][c] = e.text
          /\ \A d \in DOMAIN view[w] : d # c => view'[w][d] = view[w][d]
      BY <1>0, <1>2, <2>2
    <3>. QED
      BY <1>1, <2>2, <3>1, <3>2
  <2>3. CASE /\ {e \in Entries(cache) : e.call = c} = {}
             /\ pc' = [pc EXCEPT ![w] = "gate"] /\ UNCHANGED <<cache, view>>
    BY <1>0, <1>2, <2>3
  <2>. QED
    BY <1>1, <2>1, <2>2, <2>3
<1>5. Entries(cache)' = Entries(cache)
  BY <1>4 DEF Entries
<1>6. ShownStands' /\ CachedForOriginals'
  BY <1>1, <1>5 DEF SteadyInv, ShownStands, CachedForOriginals, Stands
<1>7. ASSUME NEW d \in DOMAIN view[w], d # c
      PROVE  IF Ahead(w, d)' THEN view'[w][d] = conv'[d] ELSE Agreed(w, d)'
  <2>1. view'[w][d] = view[w][d] /\ conv' = conv
    BY <1>1, <1>4, <1>7
  <2>2. Ahead(w, d)' <=> Ahead(w, d)
    BY <1>1, <1>3, <1>7 DEF Ahead, AtRequest
  <2>3. IF Ahead(w, d) THEN view[w][d] = conv[d] ELSE Agreed(w, d)
    BY <1>2 DEF CopyAgrees
  <2>4. Agreed(w, d) => Agreed(w, d)'
    BY <1>5, <2>1 DEF Agreed, Stands
  <2>. QED
    BY <2>1, <2>2, <2>3, <2>4
<1>8. IF Ahead(w, c)' THEN view'[w][c] = conv'[c] ELSE Agreed(w, c)'
  <2>1. CASE pc'[w] = "next" /\ view'[w][c] = conv[c] /\ IsMarker(conv[c])
    <3>1. ~Ahead(w, c)'
      BY <1>3, <2>1 DEF Ahead, AtRequest
    <3>2. \A e \in Entries(cache) : e.call # c
      BY <2>1, TextTypes DEF SteadyInv, CachedForOriginals
    <3>. QED
      BY <1>1, <1>5, <2>1, <3>1, <3>2 DEF Agreed, Stands
  <2>2. ASSUME pc'[w] = "next",
               NEW e \in Entries(cache), e.call = c, view'[w][c] = e.text
        PROVE  ~Ahead(w, c)' /\ Agreed(w, c)'
    <3>1. ~Ahead(w, c)'
      BY <1>3, <2>2 DEF Ahead, AtRequest
    <3>2. ~IsMarker(conv[c])
      BY <2>2, TextTypes DEF SteadyInv, CachedForOriginals
    <3>3. \A x \in Entries(cache) : x.call = c => x = e
      BY <1>0, <2>2 DEF Entries, Once
    <3>. QED
      BY <1>1, <1>5, <2>2, <3>1, <3>2, <3>3 DEF Agreed, Stands
  <2>3. CASE pc'[w] = "gate" /\ view'[w][c] = conv[c]
    <3>1. Ahead(w, c)'
      BY <1>3, <2>3 DEF Ahead, AtRequest
    <3>. QED
      BY <1>1, <2>3, <3>1
  <2>. QED
    BY <1>4, <2>1, <2>2, <2>3
<1>9. CopyAgrees(w)'
  <2>1. job'[w].todo \subseteq DOMAIN view'[w]
    BY <1>2, <1>3, <1>4 DEF CopyAgrees
  <2>2. \A d \in Calls : AtRequest(w, d)' =>
          /\ d \in DOMAIN view'[w] /\ d \notin job'[w].todo
          /\ \A e \in Entries(cache) : e.call # d
    BY <1>2, <1>3, <1>4 DEF AtRequest
  <2>3. \A d \in DOMAIN view'[w] :
          IF Ahead(w, d)' THEN view'[w][d] = conv'[d] ELSE Agreed(w, d)'
    BY <1>4, <1>7, <1>8
  <2>. QED
    BY <1>3, <1>5, <2>1, <2>2, <2>3 DEF CopyAgrees
<1>. QED
  BY <1>0, <1>6, <1>9 DEF SteadyInv

\* What an attempt put in the place of a result is in the cache from then on.
LEMMA DeliverSteady ==
  ASSUME Steady, TypesInv, CountInv, SteadyInv, NEW w \in Workers, Deliver(w),
         job[w].surface = "request"
  PROVE  SteadyInv'
<1>. DEFINE c == job[w].call
            t == job[w].text
            e == [call |-> c, text |-> t]
            s == Touched(cache, e)
<1>0. /\ Workers = {w} /\ job \in [Workers -> Jobs] /\ c \in Calls /\ t \in Texts
      /\ pc \in [Workers -> Labels] /\ DOMAIN view = Workers /\ pc[w] = "deliver"
      /\ cache \in Seq(CacheEntry) /\ Once(cache) /\ CopyAgrees(w)
      /\ NCalls \in Nat /\ CacheMax \in Nat /\ CacheMax >= NCalls
  BY ReductionAssumption
  DEF Steady, TypesInv, WorkersInv, CachesInv, CopiesInv, Deliver, SteadyInv, Jobs
<1>1. /\ view' = [view EXCEPT ![w][c] = IF IsMarker(t) THEN t ELSE @]
      /\ cache' = IF IsMarker(t) THEN Trimmed(s) ELSE cache
      /\ job' = [job EXCEPT ![w] =
                   [NoJob EXCEPT !.surface = "request", !.todo = job[w].todo]]
      /\ pc' = [pc EXCEPT ![w] = "next"] /\ UNCHANGED <<conv, shown>>
  BY DEF Deliver, Goto
<1>2. /\ AtRequest(w, c) /\ conv[c] = Original
      /\ c \in DOMAIN view[w] /\ \A x \in Entries(cache) : x.call # c
      /\ view[w][c] = conv[c]
  <2>1. AtRequest(w, c)
    BY <1>0 DEF AtRequest
  <2>2. conv[c] = Original
    BY <1>0, <2>1 DEF CountInv, ConvInv
  <2>. QED
    BY <1>0, <2>1, <2>2 DEF CopyAgrees, Ahead
<1>3. /\ job'[w].surface = "request" /\ job'[w].todo = job[w].todo
      /\ pc'[w] = "next" /\ DOMAIN view'[w] = DOMAIN view[w]
      /\ \A d \in DOMAIN view[w] : d # c => view'[w][d] = view[w][d]
      /\ view'[w][c] = IF IsMarker(t) THEN t ELSE conv[c]
  BY <1>0, <1>1, <1>2 DEF NoJob
<1>4. Entries(cache') = IF IsMarker(t) THEN Entries(cache) \cup {e} ELSE Entries(cache)
  <2>1. CASE IsMarker(t)
    <3>1. e \in CacheEntry /\ e.call = c
      BY <1>0 DEF CacheEntry
    <3>. HIDE DEF e
    <3>2. /\ s \in Seq(CacheEntry) /\ Once(s)
          /\ Entries(s) = {x \in Entries(cache) : x.call # c} \cup {e}
      BY <1>0, <3>1, TouchedIs
    <3>3. Len(s) <= NCalls /\ Len(s) \in Nat
      <4>1. \A x \in CacheEntry : x.call \in Calls
        BY DEF CacheEntry
      <4>. HIDE DEF s
      <4>. QED
        BY <3>2, <4>1, OnceIsShort, LenProperties
    <3>. HIDE DEF s
    <3>4. cache' = s
      BY <1>0, <1>1, <2>1, <3>3 DEF Trimmed
    <3>. QED
      BY <1>2, <2>1, <3>2, <3>4
  <2>. QED
    BY <1>1, <2>1
<1>5. /\ e.call = c /\ e.text = t
      /\ Entries(cache)' = IF IsMarker(t) THEN Entries(cache) \cup {e} ELSE Entries(cache)
  BY <1>4 DEF Entries
<1>. HIDE DEF e, s
<1>6. \A d, u : Stands(d, u) => Stands(d, u)'
  BY <1>1, <1>5 DEF Stands
<1>7. ShownStands' /\ CachedForOriginals'
  <2>1. ShownStands'
    BY <1>1, <1>6 DEF SteadyInv, ShownStands
  <2>2. CachedForOriginals'
    BY <1>1, <1>2, <1>5 DEF SteadyInv, CachedForOriginals
  <2>. QED
    BY <2>1, <2>2
<1>8. ASSUME NEW d \in DOMAIN view[w]
      PROVE  IF Ahead(w, d)' THEN view'[w][d] = conv'[d] ELSE Agreed(w, d)'
  <2>1. CASE d \in job[w].todo
    <3>1. Ahead(w, d)' /\ Ahead(w, d) /\ view[w][d] = conv[d]
      BY <1>0, <1>3, <2>1 DEF Ahead, CopyAgrees
    <3>2. d # c
      BY <1>0, <1>2, <2>1 DEF CopyAgrees
    <3>. QED
      BY <1>1, <1>3, <3>1, <3>2
  <2>2. CASE d \notin job[w].todo
    <3>1. ~Ahead(w, d)'
      BY <1>3, <2>2 DEF Ahead, AtRequest
    <3>2. CASE d = c
      <4>1. CASE IsMarker(t)
        BY <1>1, <1>2, <1>3, <1>5, <3>1, <3>2, <4>1, TextTypes DEF Agreed, Stands
      <4>2. CASE ~IsMarker(t)
        BY <1>1, <1>2, <1>3, <1>5, <3>1, <3>2, <4>2, TextTypes DEF Agreed, Stands
      <4>. QED
        BY <4>1, <4>2
    <3>3. CASE d # c
      <4>1. ~Ahead(w, d) /\ Agreed(w, d)
        BY <1>0, <2>2, <3>3 DEF Ahead, AtRequest, CopyAgrees
      <4>2. view'[w][d] = view[w][d] /\ conv' = conv
        BY <1>1, <1>3, <3>3
      <4>3. \A x \in Entries(cache)' : x.call = d => x \in Entries(cache)
        BY <1>5, <3>3
      <4>4. Agreed(w, d)'
        BY <1>6, <4>1, <4>2, <4>3 DEF Agreed
      <4>. QED
        BY <3>1, <4>4
    <3>. QED
      BY <3>2, <3>3
  <2>. QED
    BY <2>1, <2>2
<1>9. CopyAgrees(w)'
  <2>1. job'[w].todo \subseteq DOMAIN view'[w]
    BY <1>0, <1>3 DEF CopyAgrees
  <2>2. \A d \in Calls : ~AtRequest(w, d)'
    BY <1>3 DEF AtRequest
  <2>. QED
    BY <1>3, <1>8, <2>1, <2>2 DEF CopyAgrees
<1>. QED
  BY <1>0, <1>7, <1>9 DEF SteadyInv

\* A copy that is sent has been gone through.
LEMMA SendSteady ==
  ASSUME Steady, TypesInv, SteadyInv, NEW w \in Workers, SendRequest(w)
  PROVE  /\ SteadyInv'
         /\ \A c \in Calls : IsMarker(shown[c]) => shown'[c] = shown[c]
<1>0. /\ Workers = {w} /\ job \in [Workers -> Jobs] /\ CopyAgrees(w)
      /\ DOMAIN view = Workers /\ DOMAIN view[w] \subseteq Calls
  BY DEF Steady, TypesInv, WorkersInv, CopiesInv, SteadyInv
<1>1. /\ shown' = [c \in Calls |-> IF c \in DOMAIN view[w] THEN view[w][c]
                                                           ELSE shown[c]]
      /\ view' = [view EXCEPT ![w] = << >>] /\ job' = [job EXCEPT ![w] = NoJob]
      /\ pc[w] = "next" /\ job[w].todo = {} /\ UNCHANGED <<conv, cache>>
  BY DEF SendRequest, caches
<1>2. \A c \in DOMAIN view[w] : Agreed(w, c)
  BY <1>0, <1>1 DEF CopyAgrees, Ahead, AtRequest
<1>3. Entries(cache)' = Entries(cache)
  BY <1>1 DEF Entries
<1>4. \A d, u : Stands(d, u)' <=> Stands(d, u)
  BY <1>1, <1>3 DEF Stands
<1>5. ShownStands' /\ CachedForOriginals'
  <2>1. ASSUME NEW c \in Calls, IsMarker(shown'[c]) PROVE Stands(c, shown'[c])
    <3>1. CASE c \in DOMAIN view[w]
      BY <1>1, <1>2, <2>1, <3>1 DEF Agreed
    <3>2. CASE c \notin DOMAIN view[w]
      BY <1>1, <2>1, <3>2 DEF SteadyInv, ShownStands
    <3>. QED
      BY <3>1, <3>2
  <2>2. ShownStands'
    BY <1>4, <2>1 DEF ShownStands
  <2>. QED
    BY <1>1, <1>3, <2>2 DEF SteadyInv, CachedForOriginals
<1>6. CopyAgrees(w)'
  <2>1. DOMAIN view'[w] = {} /\ job'[w] = NoJob
    BY <1>0, <1>1
  <2>. QED
    BY <2>1 DEF CopyAgrees, NoJob, AtRequest
<1>7. ASSUME NEW c \in Calls, IsMarker(shown[c]) PROVE shown'[c] = shown[c]
  <2>1. Stands(c, shown[c])
    BY <1>7 DEF SteadyInv, ShownStands
  <2>2. CASE c \in DOMAIN view[w]
    <3>1. Agreed(w, c) /\ shown'[c] = view[w][c]
      BY <1>1, <1>2, <2>2
    <3>. QED
      BY <1>7, <2>1, <3>1 DEF Agreed, Stands
  <2>3. CASE c \notin DOMAIN view[w]
    BY <1>1, <2>3
  <2>. QED
    BY <2>2, <2>3
<1>. QED
  BY <1>0, <1>5, <1>6, <1>7 DEF SteadyInv

LEMMA SteadyStep ==
  ASSUME Steady, TypesInv, CountInv, SteadyInv, [Next]_vars
  PROVE  /\ SteadyInv'
         /\ \A c \in Calls : IsMarker(shown[c]) => shown'[c] = shown[c]
<1>0. WorkersInv /\ CopiesInv
  BY DEF TypesInv
<1>1. ASSUME NEW w \in Workers, SendRequest(w)
      PROVE  /\ SteadyInv'
             /\ \A c \in Calls : IsMarker(shown[c]) => shown'[c] = shown[c]
  BY <1>1, SendSteady
<1>2. ASSUME NEW w \in Workers,
             \/ Gate(w) \/ Ready(w) \/ WriteSource(w) \/ Compress(w)
             \/ CompressFails(w) \/ Synthesize(w) \/ NotUseful(w)
             \/ KeepSource(w) \/ Report(w) \/ Deliver(w) \/ NextResult(w)
             \/ LlmRequest(w) \/ \E c \in Calls : ToolExecution(w, c)
      PROVE  SteadyInv' /\ UNCHANGED shown
  <2>1. UNCHANGED shown
    BY <1>2
    DEF Gate, Ready, WriteSource, Compress, CompressFails, Synthesize, NotUseful,
        KeepSource, Report, Deliver, NextResult, LlmRequest, ToolExecution, display
  <2>2. Deliver(w) => job[w].surface \in {"tool", "request"}
    BY DEF Deliver
  <2>3. SteadyInv'
    BY <1>0, <1>2, <2>2, AttemptSteady, DeliverSteady, ToolSteady, NextSteady,
       RequestSteady
  <2>. QED
    BY <2>1, <2>3
<1>3. CASE Tick \/ ProviderStops \/ ProviderStarts \/ UNCHANGED vars
  <2>1. UNCHANGED <<conv, shown, view, cache, pc, job>>
    BY <1>3 DEF Tick, ProviderStops, ProviderStarts, vars, display, caches
  <2>2. SteadyInv'
    BY <2>1 DEF SteadyInv, ShownStands, CachedForOriginals, CopyAgrees, Stands,
                Agreed, Ahead, AtRequest, Entries
  <2>. QED
    BY <2>1, <2>2
<1>4. ~ProcessRestarts /\ \A w \in Workers : ~WriteFails(w)
  BY DEF ProcessRestarts, WriteFails, Steady
<1>. QED
  BY <1>1, <1>2, <1>3, <1>4 DEF Next, Work, Attempt

\* StableReplacement for every session of one request at a time whose calls
\* fit into the request transform cache (middleware_request.py:71), while the
\* process runs on and its files can be written: once the model was shown a
\* marker, every later request has the same marker, so that the part of the
\* request the model has seen is not changed behind it.
THEOREM ReplacementIsStable == Steady => (Spec => StableReplacement)
<1>. SUFFICES ASSUME Steady PROVE Spec => StableReplacement
  OBVIOUS
<1>1. Init => TypesInv /\ CountInv /\ SteadyInv
  BY InitTypes, InitCount, InitSteady
<1>2. TypesInv /\ CountInv /\ SteadyInv /\ [Next]_vars
        => TypesInv' /\ CountInv' /\ SteadyInv'
  BY TypesStep, CountStep, SteadyStep DEF TypesInv, Steady
<1>3. TypesInv /\ CountInv /\ SteadyInv /\ [Next]_vars =>
        [\A c \in Calls : IsMarker(shown[c]) => shown'[c] = shown[c]]_vars
  BY SteadyStep
<1>. QED
  BY <1>1, <1>2, <1>3, PTL DEF Spec, StableReplacement
=============================================================================

--------------------------- MODULE ToolReduction ---------------------------
(***************************************************************************)
(* How a bulky tool result becomes a marker (middleware_tool.py,           *)
(* middleware_request.py, reduction.py).                                   *)
(*                                                                         *)
(* A tool call's result is offered once to compress_tool_result_for_context*)
(* right after the tool ran; what then stands in the conversation is       *)
(* offered again at every later LLM request, on a copy of the request.     *)
(* Workers are the threads of one Hermes process; they share the negative  *)
(* outcome cache, the request transform cache, the report directory, the   *)
(* event log and the provider, whose HTTP answers they wait for.           *)
(*                                                                         *)
(* Calls are numbered in conversation order, each with a result of its     *)
(* own: one session, one protocol family, so the call is its own           *)
(* fingerprint in both caches.                                             *)
(***************************************************************************)
EXTENDS Integers, SequencesExt, Subsequences

CONSTANTS Workers,
          NCalls,      \* tool calls of the session
          ToolOf,      \* the tool of each call: it names the report files
          Verdicts,    \* per call: what policy may say of its result
          Buried,      \* calls whose replaced result is a structure that
                       \* starts with more than 2,000 other characters
          Outcomes,    \* what the provider may answer to a compression
          LocalWrites, \* local_exact_writes_enabled
          CacheMax,    \* llm_request_cache_max
          NegativeTTL, \* NEGATIVE_OUTCOME_TTL_SECONDS
          Faults,      \* "provider", "process", "write", "local"
          MaxTime,     \* bound of the clock
          MaxRequests  \* bound of the number of LLM requests

Calls == 1..NCalls
Gates == {"pass", "auto_off", "protected", "semantic", "ineligible",
          "redaction", "header"}
AllOutcomes == [markers : 0..2, useful : BOOLEAN]

ASSUME ReductionAssumption ==
  /\ NCalls \in Nat
  /\ DOMAIN ToolOf = Calls
  /\ Verdicts \in [Calls -> SUBSET Gates]
  /\ Buried \subseteq Calls
  /\ Outcomes \subseteq AllOutcomes
  /\ LocalWrites \in BOOLEAN
  /\ CacheMax \in Nat \ {0}
  /\ NegativeTTL \in Nat \ {0}
  /\ Faults \subseteq {"provider", "process", "write", "local"}
  /\ MaxTime \in Nat /\ MaxRequests \in Nat

VARIABLES now,       \* the clock, in seconds: the stamp of the report files
          requests,  \* LLM requests made so far
          up,        \* the provider answers
          held,      \* calls whose source the provider holds under a marker
          local,     \* calls whose source the local exact store holds
          sidecar,   \* *.exact.log: the call whose source each file holds
          negative,  \* _NEGATIVE_OUTCOME_CACHE, oldest use first
          cache,     \* _LLM_REQUEST_TRANSFORM_CACHE, oldest use first
          conv,      \* the tool result in the conversation
          shown,     \* the tool result the model last saw
          view,      \* per worker: its copy of the request
          pc, job,   \* per worker
          logged,    \* calls with a savings event that names its source
          savings,   \* history: savings events that count, per call
          refused    \* history: until when a call's last negative outcome holds

caches == <<negative, cache>>
stores == <<held, local, sidecar>>
ledger == <<logged, savings, refused>>
display == <<shown, view>>
vars == <<now, requests, up, stores, caches, conv, display, pc, job, ledger>>

\* What may stand for a tool result: nothing yet, the result, or a marker
\* with the stamp of its report files.
Text(origin, stamp) == [origin |-> origin, stamp |-> stamp]
Original == Text("original", 0)
NotRun == Text("not_run", 0)
Running == Text("running", 0)
IsMarker(t) == t.origin \in {"ccr", "local"}

NoJob == [call |-> 0, surface |-> "none", todo |-> {}, stamp |-> 0,
          outcome |-> [markers |-> 0, useful |-> FALSE], text |-> Original]

Init ==
  /\ now = 0 /\ requests = 0 /\ up = TRUE
  /\ held = {} /\ local = {}
  /\ sidecar = << >>
  /\ negative = << >> /\ cache = << >>
  /\ conv = [c \in Calls |-> NotRun]
  /\ shown = [c \in Calls |-> NotRun]
  /\ view = [w \in Workers |-> << >>]
  /\ pc = [w \in Workers |-> "idle"]
  /\ job = [w \in Workers |-> NoJob]
  /\ logged = {}
  /\ savings = [c \in Calls |-> 0]
  /\ refused = [c \in Calls |-> 0]

-----------------------------------------------------------------------------
(* The two caches: least recently used goes first.                         *)

\* A cache has one entry per call.
Without(s, c) ==
  IF \E i \in 1..Len(s) : s[i].call = c
    THEN RemoveAt(s, CHOOSE i \in 1..Len(s) : s[i].call = c)
    ELSE s
Entries(s) == {s[i] : i \in 1..Len(s)}

\* Faulty variants: one entry too few is kept; an entry is added beside the
\* one it should replace.
TrimmedShort(s) == IF Len(s) >= CacheMax THEN Tail(s) ELSE s
Trimmed(s) == IF Len(s) > CacheMax THEN Tail(s) ELSE s
TouchedTwice(s, e) == Append(s, e)
Touched(s, e) == Append(Without(s, e.call), e)

\* Cleared of outdated entries when one is added.  Faulty variant: of the
\* live ones.
LivePurged(s) == Subsequence(s, {i \in 1..Len(s) : s[i].expires <= now})
Purged(s) == Subsequence(s, {i \in 1..Len(s) : s[i].expires > now})

NegativeHit(c) == \E e \in Entries(negative) : e.call = c /\ e.expires > now

-----------------------------------------------------------------------------
Goto(w, label) == pc' = [pc EXCEPT ![w] = label]

\* The attempt at the worker's call ends with text t.
Settle(w, t) ==
  /\ job' = [job EXCEPT ![w].text = t]
  /\ Goto(w, "deliver")

\* _already_compressed: a marker's sentinel in the first 2,000 characters.
AlreadyCompressed(c) == IsMarker(conv[c]) /\ c \notin Buried

-----------------------------------------------------------------------------
(* Entry points.                                                           *)

\* on_tool_execution: the tool has run, its result is offered.
ToolExecution(w, c) ==
  /\ pc[w] = "idle"
  /\ conv[c] = NotRun
  /\ \A d \in 1..(c - 1) : conv[d] # NotRun
  /\ conv' = [conv EXCEPT ![c] = Running]
  /\ job' = [job EXCEPT ![w] = [NoJob EXCEPT !.call = c, !.surface = "tool"]]
  /\ Goto(w, "gate")
  /\ UNCHANGED <<now, requests, up, stores, caches, display, ledger>>

\* on_llm_request: a copy of the conversation as it stands is gone through.
LlmRequest(w) ==
  LET S == {c \in Calls : conv[c] \notin {NotRun, Running}} IN
  /\ pc[w] = "idle"
  /\ requests < MaxRequests
  /\ S # {}
  /\ requests' = requests + 1
  /\ job' = [job EXCEPT ![w] = [NoJob EXCEPT !.surface = "request",
                                             !.todo = S]]
  /\ view' = [view EXCEPT ![w] = [c \in S |-> conv[c]]]
  /\ Goto(w, "next")
  /\ UNCHANGED <<now, up, stores, caches, conv, shown, ledger>>

\* _compress_request_text: a marker is left alone, a source transformed
\* before is taken from the cache, anything else is offered.
NextResult(w) ==
  /\ pc[w] = "next"
  /\ \E c \in job[w].todo :
       LET hits == {e \in Entries(cache) : e.call = c} IN
       /\ \A d \in job[w].todo : c <= d
       /\ job' = [job EXCEPT ![w].todo = @ \ {c}, ![w].call = c]
       /\ \/ /\ AlreadyCompressed(c)
             /\ UNCHANGED <<cache, view, pc>>
          \/ /\ ~AlreadyCompressed(c)
             /\ \E e \in hits :
                  /\ cache' = Touched(cache, e)
                  /\ view' = [view EXCEPT ![w][c] = e.text]
             /\ UNCHANGED pc
          \/ /\ ~AlreadyCompressed(c)
             /\ hits = {}
             /\ Goto(w, "gate")
             /\ UNCHANGED <<cache, view>>
  /\ UNCHANGED <<now, requests, up, stores, negative, conv, shown, ledger>>

\* The transformed copy is sent.
SendRequest(w) ==
  /\ pc[w] = "next"
  /\ job[w].todo = {}
  /\ shown' = [c \in Calls |-> IF c \in DOMAIN view[w] THEN view[w][c]
                                                       ELSE shown[c]]
  /\ view' = [view EXCEPT ![w] = << >>]
  /\ job' = [job EXCEPT ![w] = NoJob]
  /\ Goto(w, "idle")
  /\ UNCHANGED <<now, requests, up, stores, caches, conv, ledger>>

-----------------------------------------------------------------------------
(* compress_tool_result_for_context.                                       *)

\* Configuration, protected material, semantic admission, then the negative
\* outcome cache.
Early == {"auto_off", "protected", "semantic"}

Gate(w) ==
  LET c == job[w].call IN
  /\ pc[w] = "gate"
  /\ \/ /\ Verdicts[c] \cap Early # {}
        /\ Settle(w, Original)
        /\ UNCHANGED negative
     \/ /\ Verdicts[c] \ Early # {}
        /\ NegativeHit(c)
        /\ Settle(w, Original)
        /\ \E e \in Entries(negative) :
             e.call = c /\ negative' = Touched(negative, e)
     \/ /\ Verdicts[c] \ Early # {}
        /\ ~NegativeHit(c)
        /\ Goto(w, "ready")
        /\ negative' = Without(negative, c)
        /\ UNCHANGED job
  /\ UNCHANGED <<now, requests, up, stores, cache, conv, display, ledger>>

\* Faulty variant: what redaction would change goes on.
PassesUnredacted(late) == late \cap {"pass", "redaction"} # {}
Passes(late) == "pass" \in late

\* The provider is asked whether it is ready; then lane eligibility,
\* redaction and the exact header decide.
Ready(w) ==
  LET late == Verdicts[job[w].call] \ Early IN
  /\ pc[w] = "ready"
  /\ \/ /\ ~up \/ late # {"pass"}
        /\ Settle(w, Original)
     \/ /\ up /\ Passes(late)
        /\ Goto(w, "source")
        /\ UNCHANGED job
  /\ UNCHANGED <<now, requests, up, stores, caches, conv, display, ledger>>

\* A report directory holds one set of files per tool and second.
Put(files, name, c) ==
  [n \in DOMAIN files \cup {name} |-> IF n = name THEN c ELSE files[n]]

\* The stamp is taken and the exact sidecar is written under it.
WriteSource(w) ==
  /\ pc[w] = "source"
  /\ job' = [job EXCEPT ![w].stamp = now]
  /\ sidecar' = Put(sidecar, <<now, ToolOf[job[w].call]>>, job[w].call)
  /\ Goto(w, "compress")
  /\ UNCHANGED <<now, requests, up, held, local, caches, conv, display, ledger>>

\* The provider compresses, and holds the source of what it marks.
Compress(w) ==
  /\ pc[w] = "compress"
  /\ up
  /\ \E o \in Outcomes :
       /\ job' = [job EXCEPT ![w].outcome = o]
       /\ held' = IF o.markers > 0 THEN held \cup {job[w].call} ELSE held
  /\ Goto(w, "synthesize")
  /\ UNCHANGED <<now, requests, up, local, sidecar, caches, conv, display, ledger>>

\* The request fails or times out: nothing is remembered of it.  Faulty
\* variant: a provider that is gone is waited for.
CompressFailsIfUp(w) ==
  /\ pc[w] = "compress"
  /\ up /\ "provider" \in Faults
  /\ Settle(w, Original)
  /\ UNCHANGED <<now, requests, up, stores, caches, conv, display, ledger>>
CompressFails(w) ==
  /\ pc[w] = "compress"
  /\ ~up \/ "provider" \in Faults
  /\ Settle(w, Original)
  /\ UNCHANGED <<now, requests, up, stores, caches, conv, display, ledger>>

\* retain_local_source: exact, or refused (off, not allowed, too large, an
\* I/O error).
Retained(w, origin) ==
  /\ LocalWrites
  /\ local' = local \cup {job[w].call}
  /\ job' = [job EXCEPT ![w].text = Text(origin, job[w].stamp)]
NotRetained(w, text) ==
  /\ ~LocalWrites \/ "local" \in Faults
  /\ UNCHANGED local
  /\ job' = [job EXCEPT ![w].text = text]

\* A useful answer without any marker gets a local one, if the local store
\* takes the source.  Faulty variant: whether it did is not looked at.
SynthesizeUnchecked(w) ==
  LET o == job[w].outcome IN
  /\ pc[w] = "synthesize"
  /\ \/ /\ o.useful /\ o.markers = 0
        /\ \/ Retained(w, "local")
           \/ NotRetained(w, Text("local", job[w].stamp))
     \/ /\ ~(o.useful /\ o.markers = 0)
        /\ UNCHANGED <<local, job>>
  /\ Goto(w, "judge")
  /\ UNCHANGED <<now, requests, up, held, sidecar, caches, conv, display, ledger>>
Synthesize(w) ==
  LET o == job[w].outcome IN
  /\ pc[w] = "synthesize"
  /\ \/ /\ o.useful /\ o.markers = 0
        /\ Retained(w, "local") \/ NotRetained(w, Original)
     \/ /\ ~(o.useful /\ o.markers = 0)
        /\ UNCHANGED <<local, job>>
  /\ Goto(w, "judge")
  /\ UNCHANGED <<now, requests, up, held, sidecar, caches, conv, display, ledger>>

\* Exactly one marker and savings worth having; anything else becomes a
\* negative outcome.  A provider's marker gets a local copy as well.
Useful(w) ==
  job[w].outcome.useful /\ (job[w].outcome.markers = 1 \/ IsMarker(job[w].text))

NotUseful(w) ==
  LET c == job[w].call IN
  /\ pc[w] = "judge"
  /\ ~Useful(w)
  /\ negative' = Trimmed(Touched(Purged(negative),
                                 [call |-> c, expires |-> now + NegativeTTL]))
  /\ refused' = [refused EXCEPT ![c] = now + NegativeTTL]
  /\ Settle(w, Original)
  /\ UNCHANGED <<now, requests, up, stores, cache, conv, display, logged, savings>>

KeepSource(w) ==
  /\ pc[w] = "judge"
  /\ Useful(w)
  /\ \/ /\ IsMarker(job[w].text)
        /\ UNCHANGED <<local, job>>
     \/ /\ ~IsMarker(job[w].text)
        /\ Retained(w, "ccr") \/ NotRetained(w, Text("ccr", job[w].stamp))
  /\ Goto(w, "report")
  /\ UNCHANGED <<now, requests, up, held, sidecar, caches, conv, display, ledger>>

\* The event of a replacement counts as new savings, except that at the
\* request boundary the log is searched for an earlier one of this source.
\* Faulty variant: without the search.
SavingsUnsearched(w, c) ==
  /\ savings' = [savings EXCEPT ![c] = @ + 1]
  /\ logged' = IF job[w].surface = "request" THEN logged \cup {c} ELSE logged
Savings(w, c) ==
  \/ /\ job[w].surface = "tool"
     /\ savings' = [savings EXCEPT ![c] = @ + 1]
     /\ UNCHANGED logged
  \/ /\ job[w].surface = "request"
     /\ savings' = IF c \in logged THEN savings
                                   ELSE [savings EXCEPT ![c] = @ + 1]
     /\ logged' = logged \cup {c}

\* An event that cannot be appended is lost; the replacement stands.
Report(w) ==
  /\ pc[w] = "report"
  /\ \/ Savings(w, job[w].call)
     \/ "write" \in Faults /\ UNCHANGED <<logged, savings>>
  /\ Goto(w, "deliver")
  /\ UNCHANGED <<now, requests, up, stores, caches, conv, display, job, refused>>

\* The attempt's text takes the place of the result, or the result stays.
Deliver(w) ==
  LET c == job[w].call
      t == job[w].text IN
  /\ pc[w] = "deliver"
  /\ \/ /\ job[w].surface = "tool"
        /\ conv' = [conv EXCEPT ![c] = t]
        /\ job' = [job EXCEPT ![w] = NoJob]
        /\ Goto(w, "idle")
        /\ UNCHANGED <<cache, view>>
     \/ /\ job[w].surface = "request"
        /\ job' = [job EXCEPT ![w] =
                     [NoJob EXCEPT !.surface = "request", !.todo = job[w].todo]]
        /\ view' = [view EXCEPT ![w][c] = IF IsMarker(t) THEN t ELSE @]
        /\ cache' = IF IsMarker(t)
                      THEN Trimmed(Touched(cache, [call |-> c, text |-> t]))
                      ELSE cache
        /\ Goto(w, "next")
        /\ UNCHANGED conv
  /\ UNCHANGED <<now, requests, up, stores, negative, shown, ledger>>

\* A report file cannot be written: the tool's result is returned as it is;
\* a request is sent as it was, whatever was transformed in it before.  A
\* sidecar cut short holds no source (0).
WriteFails(w) ==
  /\ "write" \in Faults
  /\ pc[w] \in {"source", "synthesize", "judge", "report"}
  /\ \/ /\ job[w].surface = "tool"
        /\ conv' = [conv EXCEPT ![job[w].call] = Original]
        /\ UNCHANGED shown
     \/ /\ job[w].surface = "request"
        /\ shown' = [c \in Calls |-> IF c \in DOMAIN view[w] THEN conv[c]
                                                             ELSE shown[c]]
        /\ UNCHANGED conv
  /\ job' = [job EXCEPT ![w] = NoJob]
  /\ view' = [view EXCEPT ![w] = << >>]
  /\ Goto(w, "idle")
  /\ \/ UNCHANGED sidecar
     \/ /\ pc[w] = "source"
        /\ sidecar' = Put(sidecar, <<now, ToolOf[job[w].call]>>, 0)
  /\ UNCHANGED <<now, requests, up, held, local, caches, ledger>>

-----------------------------------------------------------------------------
(* The environment.                                                        *)

Tick ==
  /\ now < MaxTime
  /\ now' = now + 1
  /\ UNCHANGED <<requests, up, stores, caches, conv, display, pc, job, ledger>>

\* The provider keeps its sources in memory.
ProviderStops ==
  /\ "provider" \in Faults
  /\ up
  /\ up' = FALSE
  /\ held' = {}
  /\ UNCHANGED <<now, requests, local, sidecar, caches, conv, display, pc, job, ledger>>

ProviderStarts ==
  /\ ~up
  /\ up' = TRUE
  /\ UNCHANGED <<now, requests, stores, caches, conv, display, pc, job, ledger>>

\* The Hermes process is restarted and the session resumed: the caches are
\* gone, the event log and the conversation are not.
ProcessRestarts ==
  /\ "process" \in Faults
  /\ pc' = [w \in Workers |-> "idle"]
  /\ job' = [w \in Workers |-> NoJob]
  /\ view' = [w \in Workers |-> << >>]
  /\ negative' = << >> /\ cache' = << >>
  /\ refused' = [c \in Calls |-> 0]
  /\ UNCHANGED <<now, requests, up, stores, conv, shown, logged, savings>>

-----------------------------------------------------------------------------
Attempt(w) ==
  \/ Gate(w) \/ Ready(w) \/ WriteSource(w) \/ Compress(w) \/ CompressFails(w)
  \/ Synthesize(w) \/ NotUseful(w) \/ KeepSource(w) \/ Report(w) \/ Deliver(w)
  \/ WriteFails(w)

Work(w) == Attempt(w) \/ NextResult(w) \/ SendRequest(w)

Next ==
  \/ \E w \in Workers : Work(w) \/ LlmRequest(w)
  \/ \E w \in Workers, c \in Calls : ToolExecution(w, c)
  \/ Tick \/ ProviderStops \/ ProviderStarts \/ ProcessRestarts

Spec == Init /\ [][Next]_vars
FairSpec == Spec /\ \A w \in Workers : WF_vars(Work(w))
-----------------------------------------------------------------------------
(* Properties.                                                             *)

Texts == [origin : {"not_run", "running", "original", "ccr", "local"}, stamp : Nat]
Surfaces == {"none", "tool", "request"}
Jobs == [call : Calls \cup {0}, surface : Surfaces, todo : SUBSET Calls,
         stamp : Nat, outcome : AllOutcomes, text : Texts]
Labels == {"idle", "next", "gate", "ready", "source", "compress", "synthesize",
           "judge", "report", "deliver"}

\* Both caches stay within their bound with one entry per call, and every
\* worker is where the code can be.
TypeOK ==
  /\ now \in Nat /\ requests \in Nat /\ up \in BOOLEAN
  /\ held \subseteq Calls /\ local \subseteq Calls
  /\ \A f \in DOMAIN sidecar : sidecar[f] \in Calls \cup {0}
  /\ Len(negative) <= CacheMax /\ Len(cache) <= CacheMax
  /\ \A i, j \in 1..Len(cache) : cache[i].call = cache[j].call => i = j
  /\ \A i, j \in 1..Len(negative) : negative[i].call = negative[j].call => i = j
  /\ \A e \in Entries(cache) : IsMarker(e.text)
  /\ conv \in [Calls -> Texts]
  /\ shown \in [Calls -> Texts]
  /\ pc \in [Workers -> Labels]
  /\ job \in [Workers -> Jobs]
  /\ \A w \in Workers :
       /\ DOMAIN view[w] \subseteq Calls
       /\ \A c \in DOMAIN view[w] : view[w][c] \in Texts
  /\ logged \subseteq Calls
  /\ savings \in [Calls -> Nat]

\* The text in t's place can be had from a store that holds it.
Recoverable(c, t) ==
  \/ t.origin = "ccr" /\ c \in held \cup local
  \/ t.origin = "local" /\ c \in local

\* While the provider keeps running and nothing leaves the local store, a
\* marker the model is about to be given leads to its source in one of them.
ReplacedIsRecoverable ==
  \A w \in Workers : pc[w] = "deliver" /\ IsMarker(job[w].text)
                       => Recoverable(job[w].call, job[w].text)

\* Material that policy keeps from the provider is in no store and in no
\* report file, on either surface.
Withheld(c) == "pass" \notin Verdicts[c]
BlockedStaysHere ==
  \A c \in Calls : Withheld(c) =>
    /\ c \notin held \cup local
    /\ \A f \in DOMAIN sidecar : sidecar[f] # c
    /\ ~IsMarker(conv[c]) /\ ~IsMarker(shown[c])

\* One source counts at most once as new savings, over both surfaces, cache
\* evictions, concurrent requests and restarts of the process.
CountedOnce == \A c \in Calls : savings[c] <= 1

\* A source whose last outcome was negative is not offered to the provider
\* again before that outcome has run out, on either surface.
NoRepeatedWork ==
  [][\A w \in Workers : pc[w] = "gate" /\ pc'[w] = "ready"
                          => refused[job[w].call] <= now]_vars

\* One request at a time: once the model was shown a marker it is shown the
\* same marker at every later request.
StableReplacement ==
  [][\A c \in Calls : IsMarker(shown[c]) => shown'[c] = shown[c]]_vars

\* Every call's result reaches the conversation, whatever the provider does
\* and whatever cannot be written.
ResultsArrive == \A c \in Calls : conv[c] = Running ~> conv[c] # Running

\* Said by reduction.py:317 ("the exact sidecar authority"): the files a
\* marker names hold the source the marker stands for.
SidecarIsOwn ==
  \A c \in Calls : IsMarker(conv[c]) =>
    sidecar[<<conv[c].stamp, ToolOf[c]>>] = c
=============================================================================

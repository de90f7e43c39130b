-------------------------------- MODULE Audit --------------------------------
(***************************************************************************)
(* The audit harness: run_baseline.py and run_i386_smoke.py run the tracer *)
(* and GNU strace and keep what they saw under raw/, analyze_results.py    *)
(* judges it and publishes test_results.json and test_results.md.  The     *)
(* three communicate through files only, and each may be interrupted       *)
(* between any two of them.                                                *)
(*                                                                         *)
(* A capture is four files: the command, stdout, stderr and the result.    *)
(* What a file says is reduced to the run that wrote it and to whether the *)
(* analysis likes it.  Every file but the two that are published is        *)
(* replaced atomically (atomic_write_bytes, run_baseline.py:77-84).        *)
(***************************************************************************)
EXTENDS Integers, Sequences, SequencesExt

CONSTANTS
  Builds,      \* main run: the captures of make and of the compilations, in order
  Cases,       \* and for each case its pair of captures, the tracer's and GNU's
  I386Builds,  \* the captures of as and ld
  I386Case,    \* the pair of captures of the i386 case
  Overlap,     \* whether one tool may be started while another is at work
  MaxRuns      \* bound: runs, of both kinds together

MainCaptures == Builds \o FlattenSeq(Cases)
I386Captures == I386Builds \o I386Case
Captures == ToSet(MainCaptures) \cup ToSet(I386Captures)
CAPTURE_SUFFIXES == <<".command.json", ".stdout", ".stderr", ".result.json">>

ASSUME CaptureAssumption ==
  /\ {Builds, I386Builds, I386Case} \subseteq Seq(STRING) /\ Cases \in Seq(Seq(STRING))
  /\ IsInjective(MainCaptures \o I386Captures)
  /\ Len(I386Case) = 2 /\ \A i \in DOMAIN Cases : Len(Cases[i]) = 2
  /\ Builds # <<>> /\ I386Builds # <<>>
ASSUME RunAssumption == Overlap \in BOOLEAN /\ MaxRuns \in Nat

VARIABLES
  files,       \* files[c][s]: a capture's file
  environment, \* the run environment.json describes
  index,       \* run_index.json
  i386_index,  \* i386_run_index.json
  runs,        \* how many runs have been started
  job,         \* job[r]: what a runner is doing, r is "main" or "i386"
  analysis,    \* what the analysis is doing
  json, md     \* what test_results.json and test_results.md were made from

vars == <<files, environment, index, i386_index, runs, job, analysis, json, md>>
published == <<json, md>>

\* "late": the process had ended when its timeout was noticed, so its status is
\* the right one but timed_out is set; "bad": anything else that is not expected.
Outcomes == {"ok", "late", "bad"}
NoFile == [run |-> 0, outcome |-> "none"]
File == [run : 1..MaxRuns, outcome : Outcomes] \cup {NoFile}

Runners == {"main", "i386"}
CapturesOf(r) == IF r = "main" THEN MainCaptures ELSE I386Captures
Idle == [at |-> "idle", run |-> 0, next |-> 1, n |-> 0, got |-> "ok", kept |-> <<>>]
NoIndex == [run |-> 0, state |-> "none", recorded |-> 0]
NoI386Index == [run |-> 0, builds |-> <<>>]
NotAnalysing == [at |-> "idle", main |-> 0, i386 |-> 0, next |-> 1, seen |-> {}]
Unpublished == [main |-> 0, i386 |-> 0, seen |-> {}]

Init ==
  /\ files = [c \in Captures |-> [s \in ToSet(CAPTURE_SUFFIXES) |-> NoFile]]
  /\ environment = 0 /\ index = NoIndex /\ i386_index = NoI386Index /\ runs = 0
  /\ job = [r \in Runners |-> Idle]
  /\ analysis = NotAnalysing /\ json = Unpublished /\ md = Unpublished

(***************************************************************************)
(* The runners.                                                            *)
(***************************************************************************)

Doing(r, at) == job[r].at = at
Quiet == analysis.at = "idle" /\ \A r \in Runners : Doing(r, "idle")
Current(r) == CapturesOf(r)[job[r].next]

Begin(r) ==
  /\ Doing(r, "idle") /\ runs < MaxRuns
  /\ Overlap \/ Quiet
  /\ runs' = runs + 1
  /\ job' = [job EXCEPT ![r] = [Idle EXCEPT !.run = runs + 1,
               !.at = IF r = "main" THEN "environment" ELSE "clean"]]
  /\ UNCHANGED <<files, environment, index, i386_index, analysis, published>>

\* Mutant: an environment.json that is there already is kept.
KeepEnvironment ==
  /\ Doing("main", "environment")
  /\ environment' = IF environment = 0 THEN job["main"].run ELSE environment
  /\ job' = [job EXCEPT !["main"].at = "mark"]
  /\ UNCHANGED <<files, index, i386_index, runs, analysis, published>>

\* The environment of the new run replaces that of the last one, before the index does.
WriteEnvironment ==
  /\ Doing("main", "environment")
  /\ environment' = job["main"].run
  /\ job' = [job EXCEPT !["main"].at = "mark"]
  /\ UNCHANGED <<files, index, i386_index, runs, analysis, published>>

\* Mutant: the index is first written after the first capture.
MarkNothing ==
  /\ Doing("main", "mark")
  /\ job' = [job EXCEPT !["main"].at = "clean"]
  /\ UNCHANGED <<files, environment, index, i386_index, runs, analysis, published>>

\* The index of the new run replaces that of the last one before any capture does.
MarkRunning ==
  /\ Doing("main", "mark")
  /\ index' = [run |-> job["main"].run, state |-> "running", recorded |-> 0]
  /\ job' = [job EXCEPT !["main"].at = "clean"]
  /\ UNCHANGED <<files, environment, i386_index, runs, analysis, published>>

\* Mutant: nothing is removed.
CleanNothing(r) ==
  /\ Doing(r, "clean")
  /\ job' = [job EXCEPT ![r].at = "execute"]
  /\ UNCHANGED <<files, environment, index, i386_index, runs, analysis, published>>

\* clean_capture_prefix removes the files of an earlier run one by one.
Clean(r) ==
  /\ Doing(r, "clean")
  /\ IF job[r].n < Len(CAPTURE_SUFFIXES)
     THEN /\ files' = [files EXCEPT ![Current(r)][CAPTURE_SUFFIXES[job[r].n + 1]] = NoFile]
          /\ job' = [job EXCEPT ![r].n = @ + 1]
     ELSE /\ job' = [job EXCEPT ![r].at = "execute", ![r].n = 0]
          /\ UNCHANGED files
  /\ UNCHANGED <<environment, index, i386_index, runs, analysis, published>>

\* execute_process: whatever happens is an outcome; a timeout kills the group and
\* collects what there is.
Execute(r) ==
  /\ Doing(r, "execute")
  /\ \E o \in Outcomes : job' = [job EXCEPT ![r].at = "write", ![r].got = o]
  /\ UNCHANGED <<files, environment, index, i386_index, runs, analysis, published>>

\* The assembler or the linker has failed: run_i386_smoke.py skips the engines.
BuildFailed(kept) ==
  Len(kept) = Len(I386Builds) /\ \E i \in DOMAIN kept : kept[i] = "bad"

\* The four files of the capture, the result last; then on to the index.
Write(r) ==
  /\ Doing(r, "write")
  /\ files' = [files EXCEPT ![Current(r)][CAPTURE_SUFFIXES[job[r].n + 1]] =
                 [run |-> job[r].run, outcome |-> job[r].got]]
  /\ LET kept == Append(job[r].kept, job[r].got)
     IN  job' = [job EXCEPT ![r] =
           IF job[r].n + 1 < Len(CAPTURE_SUFFIXES) THEN [@ EXCEPT !.n = job[r].n + 1]
           ELSE IF r = "main" THEN [@ EXCEPT !.at = "checkpoint", !.n = 0]
           ELSE IF Len(kept) = Len(I386Captures) \/ BuildFailed(kept)
                THEN [@ EXCEPT !.at = "index", !.n = 0, !.kept = kept]
           ELSE [@ EXCEPT !.at = "clean", !.n = 0, !.kept = kept, !.next = job[r].next + 1]]
  /\ UNCHANGED <<environment, index, i386_index, runs, analysis, published>>

\* Mutant: one capture too many is recorded.
CheckpointOneMore ==
  /\ Doing("main", "checkpoint")
  /\ index' = [index EXCEPT !.recorded = job["main"].next + 1]
  /\ LET more == job["main"].next < Len(MainCaptures)
     IN  job' = [job EXCEPT !["main"].next = IF more THEN @ + 1 ELSE @,
                            !["main"].at = IF more THEN "clean" ELSE "complete"]
  /\ UNCHANGED <<files, environment, i386_index, runs, analysis, published>>

\* The index records the capture that has just been written.
Checkpoint ==
  /\ Doing("main", "checkpoint")
  /\ index' = [index EXCEPT !.recorded = job["main"].next]
  /\ LET more == job["main"].next < Len(MainCaptures)
     IN  job' = [job EXCEPT !["main"].next = IF more THEN @ + 1 ELSE @,
                            !["main"].at = IF more THEN "clean" ELSE "complete"]
  /\ UNCHANGED <<files, environment, i386_index, runs, analysis, published>>

Complete ==
  /\ Doing("main", "complete")
  /\ index' = [index EXCEPT !.state = "complete"]
  /\ job' = [job EXCEPT !["main"] = Idle]
  /\ UNCHANGED <<files, environment, i386_index, runs, analysis, published>>

\* The i386 runner writes its index once, at its end.
WriteI386Index ==
  /\ Doing("i386", "index")
  /\ i386_index' = [run |-> job["i386"].run,
                    builds |-> SubSeq(job["i386"].kept, 1, Len(I386Builds))]
  /\ job' = [job EXCEPT !["i386"] = Idle]
  /\ UNCHANGED <<files, environment, index, runs, analysis, published>>

Interrupt(r) ==
  /\ ~Doing(r, "idle")
  /\ job' = [job EXCEPT ![r] = Idle]
  /\ UNCHANGED <<files, environment, index, i386_index, runs, analysis, published>>

(***************************************************************************)
(* The analysis.                                                           *)
(***************************************************************************)

\* The files it reads, in order: the results of the builds, and of each case the
\* results, the stderr and the stdout of both engines.
ReadsOf(case) ==
  FlattenSeq([i \in 1..3 |->
    LET s == <<".result.json", ".stderr", ".stdout">>[i]
    IN  << <<case[1], s>>, <<case[2], s>> >>])
BuildReads == [i \in DOMAIN Builds |-> <<Builds[i], ".result.json">>]
CaseReads == FlattenSeq([i \in DOMAIN Cases |-> ReadsOf(Cases[i])]) \o ReadsOf(I386Case)

Abort == analysis' = NotAnalysing

\* Mutant: the state of the index is not looked at.
StartAnyState ==
  /\ analysis.at = "idle"
  /\ Overlap \/ Quiet
  /\ index # NoIndex
  /\ analysis' = [NotAnalysing EXCEPT !.at = "i386index", !.main = index.run]
  /\ UNCHANGED <<files, environment, index, i386_index, runs, job, published>>

\* It reads run_index.json; a run that is not complete is refused.
StartAnalysis ==
  /\ analysis.at = "idle"
  /\ Overlap \/ Quiet
  /\ index.state = "complete"
  /\ analysis' = [NotAnalysing EXCEPT !.at = "i386index", !.main = index.run]
  /\ UNCHANGED <<files, environment, index, i386_index, runs, job, published>>

ReadI386Index ==
  /\ analysis.at = "i386index"
  /\ IF i386_index = NoI386Index THEN Abort
     ELSE analysis' = [analysis EXCEPT !.at = "builds", !.i386 = i386_index.run]
  /\ UNCHANGED <<files, environment, index, i386_index, runs, job, published>>

\* Mutant: assert_healthy forgets timed_out.
AcceptsLate(file, s) == file # NoFile /\ file.outcome # "bad"

\* A missing file raises; so do a timeout, an unexpected status, and text without
\* the evidence the case specification asks for.
Accepts(file, s) ==
  /\ file # NoFile /\ file.outcome # "bad"
  /\ s = ".result.json" => file.outcome # "late"

\* One file of a list is read; after the last one the analysis goes on at "then".
ReadFrom(reads, then) ==
  LET c == reads[analysis.next][1]
      s == reads[analysis.next][2]
      file == files[c][s]
      last == analysis.next = Len(reads)
  IN  IF ~Accepts(file, s) THEN Abort
      ELSE analysis' = [analysis EXCEPT
             !.seen = @ \cup {[capture |-> c, run |-> file.run, outcome |-> file.outcome]},
             !.next = IF last THEN 1 ELSE @ + 1,
             !.at = IF last THEN then ELSE @]

VerifyBuilds ==
  /\ analysis.at = "builds" /\ ReadFrom(BuildReads, "i386builds")
  /\ UNCHANGED <<files, environment, index, i386_index, runs, job, published>>

\* The builds of the i386 case are judged by i386_run_index.json, read once more.
VerifyI386Builds ==
  /\ analysis.at = "i386builds"
  /\ IF \A i \in DOMAIN i386_index.builds : i386_index.builds[i] = "ok"
     THEN analysis' = [analysis EXCEPT !.at = "cases"]
     ELSE Abort
  /\ UNCHANGED <<files, environment, index, i386_index, runs, job, published>>

AnalyzeCase ==
  /\ analysis.at = "cases" /\ ReadFrom(CaseReads, "json")
  /\ UNCHANGED <<files, environment, index, i386_index, runs, job, published>>

Results == [main |-> analysis.main, i386 |-> analysis.i386, seen |-> analysis.seen]

PublishJson ==
  /\ analysis.at = "json"
  /\ json' = Results
  /\ analysis' = [analysis EXCEPT !.at = "md"]
  /\ UNCHANGED <<files, environment, index, i386_index, runs, job, md>>

PublishMd ==
  /\ analysis.at = "md"
  /\ md' = Results
  /\ analysis' = NotAnalysing
  /\ UNCHANGED <<files, environment, index, i386_index, runs, job, json>>

InterruptAnalysis ==
  /\ analysis.at # "idle"
  /\ Abort
  /\ UNCHANGED <<files, environment, index, i386_index, runs, job, published>>

\* Nobody is obliged to start anything.
Rest ==
  /\ Quiet
  /\ UNCHANGED vars

Next ==
  \/ \E r \in Runners : Begin(r) \/ Clean(r) \/ Execute(r) \/ Write(r) \/ Interrupt(r)
  \/ WriteEnvironment \/ MarkRunning \/ Checkpoint \/ Complete \/ WriteI386Index
  \/ StartAnalysis \/ ReadI386Index \/ VerifyBuilds \/ VerifyI386Builds \/ AnalyzeCase
  \/ PublishJson \/ PublishMd \/ InterruptAnalysis \/ Rest

Spec == Init /\ [][Next]_vars

(***************************************************************************)
(* Properties.                                                             *)
(***************************************************************************)

TypeOK ==
  /\ files \in [Captures -> [ToSet(CAPTURE_SUFFIXES) -> File]]
  /\ environment \in 0..MaxRuns /\ runs \in 0..MaxRuns
  /\ index \in [run : 0..MaxRuns, state : {"none", "running", "complete"},
                recorded : 0..Len(MainCaptures)]
  /\ i386_index.run \in 0..MaxRuns /\ i386_index.builds \in Seq(Outcomes)
  /\ \A r \in Runners : job[r].next \in 1..Len(CapturesOf(r)) /\ job[r].n \in 0..4
  /\ analysis.next \in Nat \ {0}

\* A capture is of one execution: whenever and however often the runs before it were
\* interrupted, two of its files never come from different ones.
CapturesWhole ==
  \A c \in Captures : \A s, t \in ToSet(CAPTURE_SUFFIXES) :
    NoFile \in {files[c][s], files[c][t]} \/ files[c][s] = files[c][t]

\* The index never promises what is not there: the captures it records are on disk,
\* of the run it names, and all of them once it says "complete".
IndexIsBacked ==
  /\ \A k \in 1..index.recorded : \A s \in ToSet(CAPTURE_SUFFIXES) :
       files[MainCaptures[k]][s].run = index.run
  /\ index.state = "complete" => index.recorded = Len(MainCaptures)

\* Nothing of a run is on disk before environment.json and run_index.json are both of
\* that run or of a later one, wherever the runs before it were interrupted; only the
\* environment may be ahead, of a run stopped before it marked the index.
EvidenceIsAnnounced ==
  /\ index.run <= environment
  /\ \A c \in ToSet(MainCaptures) : \A s \in ToSet(CAPTURE_SUFFIXES) :
       files[c][s].run <= index.run

\* What is published of the main run is of the one run it names, if no run goes on
\* while the analysis reads (Overlap = FALSE): run_ids are recorded everywhere and compared nowhere.
PublishedIsOneRun ==
  \A results \in {json, md} : \A e \in results.seen :
    e.capture \in ToSet(MainCaptures) => e.run = results.main

\* Nothing that timed out or failed is published.
PublishedIsHealthy ==
  \A results \in {json, md} : \A e \in results.seen : e.outcome = "ok"

\* test_plan.md:65: the i386 build and its paired runs are recorded in
\* i386_run_index.json.  A runner interrupted between its captures and its index
\* leaves new captures beside the index of the run before.
I386EvidenceIsIndexed ==
  \A results \in {json, md} : \A e \in results.seen :
    e.capture \in ToSet(I386Captures) => e.run = results.i386
==============================================================================

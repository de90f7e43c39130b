------------------------------ MODULE AuditProofs ------------------------------
(***************************************************************************)
(* Theorems about the audit harness, for any builds and cases and any      *)
(* number of runs: a capture is of one execution, the index promises what  *)
(* is there, and what is published is healthy and of one run.  Four        *)
(* invariants stand behind them: PlaceInv (how far a runner is), FileInv   *)
(* (what of the capture at hand is on disk), IndexInv (what the index and  *)
(* the environment say while the main runner works) and ReadInv (what the  *)
(* analysis has read, if nothing runs beside it).                          *)
(***************************************************************************)
EXTENDS Audit, DataLemmas

Kinds == ToSet(CAPTURE_SUFFIXES)
Whole(k) == CAPTURE_SUFFIXES[k]
Accepted == {"ok", "late"}

Places(r) == IF r = "main"
             THEN {"idle", "environment", "mark", "clean", "execute", "write",
                   "checkpoint", "complete"}
             ELSE {"idle", "clean", "execute", "write", "index"}
Analyses == {"idle", "i386index", "builds", "i386builds", "cases", "json", "md"}
Entry == [capture : Captures, run : 1..MaxRuns, outcome : Accepted]
Published == [main : 0..MaxRuns, i386 : 0..MaxRuns, seen : SUBSET Entry]

AllPlaces == {"idle", "environment", "mark", "clean", "execute", "write", "checkpoint",
              "complete", "index"}
Job == [at : AllPlaces, run : 0..MaxRuns, next : Nat \ {0},
        n : 0..4, got : Outcomes, kept : Seq(Outcomes)]
Analysis == [at : Analyses, main : 0..MaxRuns, i386 : 0..MaxRuns, next : Nat \ {0},
             seen : SUBSET Entry]

Types ==
  /\ files \in [Captures -> [Kinds -> File]]
  /\ environment \in 0..MaxRuns /\ runs \in 0..MaxRuns
  /\ index \in [run : 0..MaxRuns, state : {"none", "running", "complete"},
                recorded : 0..Len(MainCaptures)]
  /\ i386_index \in [run : 0..MaxRuns, builds : Seq(Outcomes)]
  /\ job \in [Runners -> Job] /\ analysis \in Analysis
  /\ {json, md} \subseteq Published

\* A runner is at one of its captures, and at one of the four files of it; the i386
\* runner has kept an outcome of each capture it is done with.
PlaceOf(r, j) ==
  /\ j.at \in Places(r) /\ j.next <= Len(CapturesOf(r))
  /\ j.at # "idle" => j.run \in 1..MaxRuns
  /\ j.at \in {"environment", "mark"} => j.next = 1 /\ j.n = 0
  /\ j.at \in {"execute", "checkpoint"} => j.n = 0
  /\ j.at = "write" => j.n < 4
  /\ r = "i386" /\ j.at \in {"clean", "execute", "write"} => Len(j.kept) = j.next - 1
  /\ r = "i386" /\ j.at = "index" => Len(j.kept) >= Len(I386Builds)
PlaceInv == \A r \in Runners : PlaceOf(r, job[r])

\* The analysis is at one of the reads it has to do.
ReadPlace ==
  /\ analysis.at = "builds" => analysis.next <= Len(BuildReads)
  /\ analysis.at = "cases" => analysis.next <= Len(CaseReads)
  /\ analysis.at \notin {"builds", "cases"} => analysis.next = 1

\* What of its capture a runner has removed and written.
Fresh(r) == [run |-> job[r].run, outcome |-> job[r].got]
OnDisk(r, k) == files[Current(r)][Whole(k)]
FileInv ==
  \A r \in Runners : \A k \in 1..4 :
    /\ Doing(r, "clean") /\ k <= job[r].n => OnDisk(r, k) = NoFile
    /\ Doing(r, "execute") => OnDisk(r, k) = NoFile
    /\ Doing(r, "write") => OnDisk(r, k) = IF k <= job[r].n THEN Fresh(r) ELSE NoFile
    /\ Doing(r, "checkpoint") => OnDisk(r, k) = Fresh(r)

\* The index and the environment while the main runner is at work.
Marked(recorded) ==
  index = [run |-> job["main"].run, state |-> "running", recorded |-> recorded]
IndexInv ==
  /\ environment <= runs
  /\ ~Doing("main", "idle") => job["main"].run <= runs
  /\ Doing("main", "environment") => environment <= job["main"].run
  /\ Doing("main", "mark") => environment = job["main"].run
  /\ job["main"].at \in {"clean", "execute", "write", "checkpoint"} =>
       Marked(job["main"].next - 1)
  /\ Doing("main", "complete") => Marked(Len(MainCaptures))

\* What the analysis has read, one tool being at work at a time: it has accepted the
\* files before the one it is at, they are those of the index it has started from, and
\* nothing that is bad has been seen.
AllGood(results) == \A e \in results.seen : e.outcome = "ok"
OneRun(results) ==
  \A e \in results.seen : e.capture \in ToSet(MainCaptures) => e.run = results.main
ReadInv ==
  /\ analysis.at # "idle" =>
       /\ \A r \in Runners : Doing(r, "idle")
       /\ index.state = "complete" /\ analysis.main = index.run
  /\ analysis.at = "cases" =>
       \A k \in 1..analysis.next - 1 :
         Accepts(files[CaseReads[k][1]][CaseReads[k][2]], CaseReads[k][2])
  /\ \A results \in {analysis, json, md} : AllGood(results) /\ OneRun(results)

Inv ==
  /\ Types /\ PlaceInv /\ ReadPlace /\ FileInv /\ IndexInv
  /\ CapturesWhole /\ IndexIsBacked /\ EvidenceIsAnnounced
  /\ ~Overlap => ReadInv

-----------------------------------------------------------------------------
(* Captures and their files. *)

\* The four files of a capture.
LEMMA FourFiles ==
  /\ Len(CAPTURE_SUFFIXES) = 4 /\ DOMAIN CAPTURE_SUFFIXES = 1..4
  /\ \A k \in 1..4 : Whole(k) \in Kinds
  /\ \A s \in Kinds : \E k \in 1..4 : s = Whole(k)
  /\ \A j, k \in 1..4 : Whole(j) = Whole(k) => j = k
  /\ {".result.json", ".stderr", ".stdout"} \subseteq Kinds
<1>1. DOMAIN CAPTURE_SUFFIXES = 1..4 /\ Len(CAPTURE_SUFFIXES) = 4
  BY DEF CAPTURE_SUFFIXES
<1>2. \A k \in 1..4 : k = 1 \/ k = 2 \/ k = 3 \/ k = 4
  OBVIOUS
<1>3. /\ Whole(1) = ".command.json" /\ Whole(2) = ".stdout"
      /\ Whole(3) = ".stderr" /\ Whole(4) = ".result.json"
  BY DEF CAPTURE_SUFFIXES, Whole
<1>4. Kinds = {Whole(k) : k \in 1..4}
  BY <1>1 DEF Kinds, ToSet, Whole
<1>5. \A j, k \in 1..4 : Whole(j) = Whole(k) => j = k
  BY <1>2, <1>3
<1>6. QED
  BY <1>1, <1>3, <1>4, <1>5

\* The captures of all cases are a sequence.
LEMMA CasesJoined == FlattenSeq(Cases) \in Seq(STRING)
<1>1. CASE Cases = <<>>
  BY <1>1 DEF FlattenSeq
<1>2. CASE Cases # <<>>
  <2>1. \A s, t \in Seq(STRING) : s \o t \in Seq(STRING)
    OBVIOUS
  <2>2. QED
    BY <1>2, <2>1, CaptureAssumption, FlattenClosed
<1>3. QED
  BY <1>1, <1>2

\* The captures of a runner are a sequence.
LEMMA CaptureSequences ==
  /\ MainCaptures \in Seq(STRING) /\ I386Captures \in Seq(STRING)
  /\ MainCaptures # <<>> /\ I386Captures # <<>>
  /\ Len(I386Captures) = Len(I386Builds) + 2
  /\ \A r \in Runners : CapturesOf(r) \in Seq(STRING) /\ Len(CapturesOf(r)) >= 1
<1>1. FlattenSeq(Cases) \in Seq(STRING)
  BY CasesJoined
<1>2. /\ Builds \in Seq(STRING) /\ Builds # <<>> /\ I386Builds \in Seq(STRING)
      /\ I386Builds # <<>> /\ I386Case \in Seq(STRING) /\ Len(I386Case) = 2
  BY CaptureAssumption
<1>3. MainCaptures \in Seq(STRING) /\ MainCaptures # <<>>
  BY <1>1, <1>2 DEF MainCaptures
<1>4. /\ I386Captures \in Seq(STRING) /\ I386Captures # <<>>
      /\ Len(I386Captures) = Len(I386Builds) + 2
  <2>1. \A s, t \in Seq(STRING) : s \o t \in Seq(STRING) /\ Len(s \o t) = Len(s) + Len(t)
    OBVIOUS
  <2>2. I386Captures \in Seq(STRING) /\ Len(I386Captures) = Len(I386Builds) + 2
    BY <1>2, <2>1 DEF I386Captures
  <2>3. Len(I386Builds) \in Nat /\ Len(<<>>) = 0
    BY <1>2
  <2>4. QED
    BY <2>2, <2>3
<1>5. QED
  BY <1>3, <1>4 DEF CapturesOf

\* No capture is written twice, by one runner or by both.
LEMMA CapturesApart ==
  /\ \A r \in Runners : \A i \in 1..Len(CapturesOf(r)) : CapturesOf(r)[i] \in Captures
  /\ \A r \in Runners : \A i, j \in 1..Len(CapturesOf(r)) :
       CapturesOf(r)[i] = CapturesOf(r)[j] => i = j
  /\ \A i \in 1..Len(MainCaptures), j \in 1..Len(I386Captures) :
       MainCaptures[i] # I386Captures[j]
<1>1. PICK m : m = MainCaptures
  OBVIOUS
<1>2. PICK n : n = I386Captures
  OBVIOUS
<1>3. m \in Seq(STRING) /\ n \in Seq(STRING)
  BY <1>1, <1>2, CaptureSequences
<1>4. \A a, b \in DOMAIN (m \o n) : (m \o n)[a] = (m \o n)[b] => a = b
  BY <1>1, <1>2, CaptureAssumption DEF IsInjective
<1>5. \A i \in 1..Len(m) : i \in DOMAIN (m \o n) /\ (m \o n)[i] = m[i]
  BY <1>3
<1>6. \A j \in 1..Len(n) : Len(m) + j \in DOMAIN (m \o n) /\ (m \o n)[Len(m) + j] = n[j]
  BY <1>3
<1>7. Len(m) \in Nat /\ Len(n) \in Nat
  BY <1>3
<1>8. \A i, j \in 1..Len(m) : m[i] = m[j] => i = j
  BY <1>4, <1>5
<1>9. \A i, j \in 1..Len(n) : n[i] = n[j] => i = j
  <2>1. SUFFICES ASSUME NEW i \in 1..Len(n), NEW j \in 1..Len(n), n[i] = n[j] PROVE i = j
    OBVIOUS
  <2>2. Len(m) + i = Len(m) + j
    BY <1>4, <1>6, <2>1
  <2>3. QED
    BY <1>7, <2>2
<1>10. \A i \in 1..Len(m), j \in 1..Len(n) : m[i] # n[j]
  <2>1. SUFFICES ASSUME NEW i \in 1..Len(m), NEW j \in 1..Len(n), m[i] = n[j] PROVE FALSE
    OBVIOUS
  <2>2. i = Len(m) + j
    BY <1>4, <1>5, <1>6, <2>1
  <2>3. QED
    BY <1>7, <2>2
<1>11. ToSet(m) \cup ToSet(n) = Captures
  BY <1>1, <1>2 DEF Captures
<1>12. DOMAIN m = 1..Len(m) /\ DOMAIN n = 1..Len(n)
  BY <1>3
<1>13. /\ \A i \in 1..Len(m) : m[i] \in Captures
       /\ \A i \in 1..Len(n) : n[i] \in Captures
  BY <1>11, <1>12 DEF ToSet
<1>14. \A r \in Runners : CapturesOf(r) = m \/ CapturesOf(r) = n
  BY <1>1, <1>2 DEF CapturesOf
<1>15. QED
  BY <1>1, <1>2, <1>8, <1>9, <1>10, <1>13, <1>14

-----------------------------------------------------------------------------
(* What the analysis reads. *)

Reads == Captures \X Kinds
\* Of a capture the result is read first, so that its status and its timeout are known
\* before its output is looked at.
ResultFirst(s) == \A k \in DOMAIN s : \E j \in 1..k : s[j] = <<s[k][1], ".result.json">>
GoodReads == {s \in Seq(Reads) : s # <<>> /\ ResultFirst(s)}

\* Joined, good reads are good reads.
LEMMA GoodReadsJoin ==
  ASSUME NEW s \in GoodReads, NEW t \in GoodReads
  PROVE  s \o t \in GoodReads
<1>1. s \in Seq(Reads) /\ t \in Seq(Reads) /\ s # <<>>
  BY DEF GoodReads
<1>2. s \o t \in Seq(Reads) /\ s \o t # <<>> /\ Len(s) \in Nat /\ Len(t) \in Nat
  BY <1>1
<1>3. /\ \A i \in 1..Len(s) : (s \o t)[i] = s[i]
      /\ \A i \in 1..Len(t) : (s \o t)[Len(s) + i] = t[i]
      /\ DOMAIN (s \o t) = 1..(Len(s) + Len(t))
      /\ DOMAIN s = 1..Len(s) /\ DOMAIN t = 1..Len(t)
  BY <1>1
<1>4. ASSUME NEW k \in DOMAIN (s \o t)
      PROVE  \E j \in 1..k : (s \o t)[j] = <<(s \o t)[k][1], ".result.json">>
  <2>1. CASE k \in 1..Len(s)
    <3>1. PICK j \in 1..k : s[j] = <<s[k][1], ".result.json">>
      BY <1>3, <2>1 DEF GoodReads, ResultFirst
    <3>2. j \in 1..Len(s)
      BY <1>2, <2>1, <3>1
    <3>3. QED
      BY <1>3, <2>1, <3>1, <3>2
  <2>2. CASE k \notin 1..Len(s)
    <3>1. PICK l \in 1..Len(t) : k = Len(s) + l
      <4>1. k - Len(s) \in 1..Len(t) /\ k = Len(s) + (k - Len(s))
        BY <1>2, <1>3, <2>2
      <4>2. QED
        BY <4>1
    <3>2. PICK j \in 1..l : t[j] = <<t[l][1], ".result.json">>
      BY <1>3, <3>1 DEF GoodReads, ResultFirst
    <3>3. j \in 1..Len(t) /\ Len(s) + j \in 1..k
      BY <1>2, <3>1, <3>2
    <3>4. (s \o t)[Len(s) + j] = <<(s \o t)[k][1], ".result.json">>
      BY <1>3, <3>1, <3>2, <3>3
    <3>5. QED
      BY <3>3, <3>4
  <2>3. QED
    BY <2>1, <2>2
<1>5. QED
  BY <1>2, <1>4 DEF GoodReads, ResultFirst

\* The reads of one case.
LEMMA CaseReadsGood ==
  ASSUME NEW case, case[1] \in Captures, case[2] \in Captures
  PROVE  ReadsOf(case) \in GoodReads
<1>1. PICK kinds : kinds = <<".result.json", ".stderr", ".stdout">>
  OBVIOUS
<1>2. PICK p : p = [i \in 1..3 |-> << <<case[1], kinds[i]>>, <<case[2], kinds[i]>> >>]
  OBVIOUS
<1>3. \A i \in 1..3 : kinds[i] \in Kinds
  BY <1>1, FourFiles
<1>4. p \in Seq(Seq(Reads)) /\ p # <<>> /\ Len(p) = 3
  BY <1>2, <1>3 DEF Reads
<1>5. PICK g : Joins(p, g, 3) /\ FlattenSeq(p) = g[3]
  <2>1. \A s, t \in Seq(Reads) : s \o t \in Seq(Reads)
    OBVIOUS
  <2>2. QED
    BY <1>4, <2>1, FlattenJoins
<1>6. FlattenSeq(p) = (p[1] \o p[2]) \o p[3]
  <2>1. g[1] = p[1]
    BY <1>5 DEF Joins
  <2>2. g[2] = g[2 - 1] \o p[2]
    <3>1. 2 \in 1..3 /\ 2 # 1
      OBVIOUS
    <3>2. QED
      BY <1>5, <3>1 DEF Joins
  <2>3. g[3] = g[3 - 1] \o p[3]
    <3>1. 3 \in 1..3 /\ 3 # 1
      OBVIOUS
    <3>2. QED
      BY <1>5, <3>1 DEF Joins
  <2>4. 2 - 1 = 1 /\ 3 - 1 = 2
    OBVIOUS
  <2>5. QED
    BY <1>5, <2>1, <2>2, <2>3, <2>4
<1>7. PICK w : w = << <<case[1], ".result.json">>, <<case[2], ".result.json">>,
                      <<case[1], ".stderr">>, <<case[2], ".stderr">>,
                      <<case[1], ".stdout">>, <<case[2], ".stdout">> >>
  OBVIOUS
<1>8. FlattenSeq(p) = w
  BY <1>1, <1>2, <1>6, <1>7
<1>9. ReadsOf(case) = FlattenSeq(p)
  BY <1>1, <1>2 DEF ReadsOf
<1>10. w \in Seq(Reads) /\ w # <<>> /\ DOMAIN w = 1..6
  BY <1>7, FourFiles DEF Reads
<1>11. ResultFirst(w)
  <2>1. \A k \in {1, 3, 5} : w[1] = <<w[k][1], ".result.json">> /\ 1 \in 1..k
    BY <1>7
  <2>2. \A k \in {2, 4, 6} : w[2] = <<w[k][1], ".result.json">> /\ 2 \in 1..k
    BY <1>7
  <2>3. \A k \in 1..6 : k \in {1, 3, 5} \/ k \in {2, 4, 6}
    OBVIOUS
  <2>4. QED
    BY <1>10, <2>1, <2>2, <2>3 DEF ResultFirst
<1>12. QED
  BY <1>8, <1>9, <1>10, <1>11 DEF GoodReads

\* All reads are of files that exist or may, and those of a case are good.
LEMMA ReadsTyped ==
  /\ BuildReads \in Seq(Reads) /\ BuildReads # <<>>
  /\ \A k \in DOMAIN BuildReads : BuildReads[k][2] = ".result.json"
  /\ CaseReads \in GoodReads
<1>1. \A c \in ToSet(Builds) \cup ToSet(I386Case) : c \in Captures
  <2>1. FlattenSeq(Cases) \in Seq(STRING)
    BY CasesJoined
  <2>2. \A s, t \in Seq(STRING) : ToSet(s) \cup ToSet(t) = ToSet(s \o t)
    BY ToSetJoined
  <2>3. ToSet(Builds) \subseteq ToSet(MainCaptures)
    BY <2>1, <2>2, CaptureAssumption DEF MainCaptures
  <2>4. ToSet(I386Case) \subseteq ToSet(I386Captures)
    BY <2>2, CaptureAssumption DEF I386Captures
  <2>5. QED
    BY <2>3, <2>4 DEF Captures
<1>2. BuildReads \in Seq(Reads) /\ BuildReads # <<>>
  <2>1. \A i \in DOMAIN Builds : <<Builds[i], ".result.json">> \in Reads
    BY <1>1, FourFiles DEF ToSet, Reads
  <2>2. Builds \in Seq(STRING) /\ Builds # <<>>
    BY CaptureAssumption
  <2>3. QED
    BY <2>1, <2>2 DEF BuildReads
<1>3. \A k \in DOMAIN BuildReads : BuildReads[k][2] = ".result.json"
  BY DEF BuildReads
<1>4. ReadsOf(I386Case) \in GoodReads
  <2>1. I386Case[1] \in ToSet(I386Case) /\ I386Case[2] \in ToSet(I386Case)
    BY CaptureAssumption DEF ToSet
  <2>2. QED
    BY <1>1, <2>1, CaseReadsGood
<1>5. PICK rs : rs = [i \in DOMAIN Cases |-> ReadsOf(Cases[i])]
  OBVIOUS
<1>6. CASE Cases = <<>>
  <2>1. rs = <<>>
    BY <1>5, <1>6
  <2>2. FlattenSeq(rs) = <<>>
    BY <2>1 DEF FlattenSeq
  <2>3. CaseReads = <<>> \o ReadsOf(I386Case)
    BY <1>5, <2>2 DEF CaseReads
  <2>4. \A s \in Seq(Reads) : <<>> \o s = s
    OBVIOUS
  <2>5. CaseReads = ReadsOf(I386Case)
    BY <1>4, <2>3, <2>4 DEF GoodReads
  <2>6. QED
    BY <1>2, <1>3, <1>4, <2>5
<1>7. CASE Cases # <<>>
  <2>1. \A i \in DOMAIN Cases : ReadsOf(Cases[i]) \in GoodReads
    <3>1. SUFFICES ASSUME NEW i \in DOMAIN Cases PROVE ReadsOf(Cases[i]) \in GoodReads
      OBVIOUS
    <3>2. Cases[i] \in Seq(STRING) /\ Len(Cases[i]) = 2
      BY CaptureAssumption
    <3>3. Cases[i][1] \in ToSet(Cases[i]) /\ Cases[i][2] \in ToSet(Cases[i])
      BY <3>2 DEF ToSet
    <3>4. ToSet(Cases[i]) \subseteq ToSet(FlattenSeq(Cases))
      BY <1>7, CaptureAssumption, FlattenHolds
    <3>5. FlattenSeq(Cases) \in Seq(STRING)
      BY CasesJoined
    <3>6. ToSet(FlattenSeq(Cases)) \subseteq ToSet(MainCaptures)
      BY <3>5, ToSetJoined, CaptureAssumption DEF MainCaptures
    <3>7. QED
      BY <3>3, <3>4, <3>6, CaseReadsGood DEF Captures
  <2>2. rs \in Seq(GoodReads) /\ rs # <<>>
    BY <1>5, <1>7, <2>1, CaptureAssumption
  <2>3. FlattenSeq(rs) \in GoodReads
    BY <2>2, GoodReadsJoin, FlattenClosed
  <2>4. CaseReads \in GoodReads
    BY <1>4, <1>5, <2>3, GoodReadsJoin DEF CaseReads
  <2>5. QED
    BY <1>2, <1>3, <2>4
<1>8. QED
  BY <1>6, <1>7

-----------------------------------------------------------------------------
(* Types and places. *)

\* The steps of one runner, and those of the analysis.
RunnerStep(r) ==
  \/ Begin(r) \/ Clean(r) \/ Execute(r) \/ Write(r) \/ Interrupt(r)
  \/ /\ r = "main"
     /\ WriteEnvironment \/ MarkRunning \/ Checkpoint \/ Complete
  \/ r = "i386" /\ WriteI386Index
AnalysisStep ==
  \/ StartAnalysis \/ ReadI386Index \/ VerifyBuilds \/ VerifyI386Builds \/ AnalyzeCase
  \/ PublishJson \/ PublishMd \/ InterruptAnalysis

\* Every step is one of a runner, of the analysis, or of nobody.
LEMMA StepSplit ==
  ASSUME [Next]_vars
  PROVE  (\E r \in Runners : RunnerStep(r)) \/ AnalysisStep \/ UNCHANGED vars
BY DEF Next, RunnerStep, AnalysisStep, Rest, Runners

\* The analysis leaves the runners alone.
LEMMA AnalysisEffects ==
  ASSUME AnalysisStep
  PROVE  UNCHANGED <<files, environment, index, i386_index, runs, job>>
BY DEF AnalysisStep, StartAnalysis, ReadI386Index, VerifyBuilds, VerifyI386Builds,
       AnalyzeCase, PublishJson, PublishMd, InterruptAnalysis, published

\* A runner leaves the other runner and the analysis alone, and what the other runner
\* writes.
LEMMA RunnerEffects ==
  ASSUME Types, PlaceInv, NEW r \in Runners, RunnerStep(r)
  PROVE  /\ UNCHANGED <<analysis, json, md>>
         /\ job' = [job EXCEPT ![r] = job'[r]]
         /\ r # "main" => UNCHANGED <<environment, index>>
         /\ r # "i386" => UNCHANGED i386_index
         /\ \A c \in Captures : c # Current(r) => files'[c] = files[c]
<1>1. job \in [Runners -> Job] /\ files \in [Captures -> [Kinds -> File]]
  BY DEF Types
<1>2. UNCHANGED <<analysis, json, md>>
  BY DEF RunnerStep, Begin, Clean, Execute, Write, Interrupt, WriteEnvironment,
         MarkRunning, Checkpoint, Complete, WriteI386Index, published
<1>3. job' = [job EXCEPT ![r] = job'[r]]
  BY <1>1 DEF RunnerStep, Begin, Clean, Execute, Write, Interrupt, WriteEnvironment,
         MarkRunning, Checkpoint, Complete, WriteI386Index
<1>4. r # "main" => UNCHANGED <<environment, index>>
  BY DEF RunnerStep, Begin, Clean, Execute, Write, Interrupt, WriteI386Index, Runners
<1>5. r # "i386" => UNCHANGED i386_index
  BY DEF RunnerStep, Begin, Clean, Execute, Write, Interrupt, WriteEnvironment,
         MarkRunning, Checkpoint, Complete
<1>6. \A c \in Captures : c # Current(r) => files'[c] = files[c]
  BY <1>1 DEF RunnerStep, Begin, Clean, Execute, Write, Interrupt, WriteEnvironment,
         MarkRunning, Checkpoint, Complete, WriteI386Index
<1>7. QED
  BY <1>2, <1>3, <1>4, <1>5, <1>6

\* The fields of a job.
LEMMA JobFields ==
  ASSUME NEW j \in Job
  PROVE  /\ j.at \in AllPlaces /\ j.run \in 0..MaxRuns
         /\ j.next \in Nat \ {0} /\ j.n \in 0..4 /\ j.got \in Outcomes
         /\ j.kept \in Seq(Outcomes)
BY DEF Job

\* What a runner's step makes of its job.
LEMMA JobNext ==
  ASSUME Types, NEW r \in Runners, PlaceOf(r, job[r]), RunnerStep(r)
  PROVE  job'[r] \in Job /\ PlaceOf(r, job'[r])
<1>1. job \in [Runners -> Job] /\ job[r] \in Job /\ runs \in 0..MaxRuns /\ MaxRuns \in Nat
  BY RunAssumption DEF Types
<1>2. /\ Len(CAPTURE_SUFFIXES) = 4 /\ Len(CapturesOf(r)) >= 1 /\ Len(CapturesOf(r)) \in Nat
      /\ Len(I386Builds) \in Nat /\ Len(I386Captures) = Len(I386Builds) + 2
  BY FourFiles, CaptureSequences, CaptureAssumption
<1>3. PICK j : j = job[r]
  OBVIOUS
<1>4. PICK k : k = job'[r]
  OBVIOUS
<1>5. /\ j \in Job /\ PlaceOf(r, j)
      /\ j.at \in AllPlaces /\ j.run \in 0..MaxRuns
      /\ j.next \in Nat \ {0} /\ j.n \in 0..4 /\ j.got \in Outcomes
      /\ j.kept \in Seq(Outcomes)
  BY <1>1, <1>3, JobFields
<1>6. Idle \in Job /\ PlaceOf(r, Idle)
  <2>1. Idle \in Job
    BY <1>1 DEF Idle, Job, AllPlaces, Outcomes
  <2>2. Idle.at = "idle" /\ Idle.next = 1
    BY DEF Idle
  <2>3. QED
    BY <1>2, <2>1, <2>2 DEF PlaceOf, Places
<1> SUFFICES k \in Job /\ PlaceOf(r, k)
  BY <1>4
<1>7. CASE Begin(r)
  <2>1. k = [Idle EXCEPT !.run = runs + 1,
               !.at = IF r = "main" THEN "environment" ELSE "clean"]
    BY <1>1, <1>4, <1>7 DEF Begin
  <2>2. runs + 1 \in 1..MaxRuns
    BY <1>1, <1>7 DEF Begin
  <2>3. /\ k.at = IF r = "main" THEN "environment" ELSE "clean"
        /\ k.run = runs + 1 /\ k.next = 1 /\ k.n = 0 /\ k.kept = <<>>
    BY <2>1 DEF Idle
  <2>4. k = [at |-> k.at, run |-> k.run, next |-> 1, n |-> 0, got |-> "ok", kept |-> <<>>]
    <3>1. k = [at |-> IF r = "main" THEN "environment" ELSE "clean", run |-> runs + 1,
               next |-> 1, n |-> 0, got |-> "ok", kept |-> <<>>]
      BY <2>1 DEF Idle
    <3>2. QED
      BY <3>1
  <2>5. k.at \in AllPlaces /\ k.run \in 0..MaxRuns
    BY <1>1, <2>2, <2>3 DEF AllPlaces
  <2>6. k \in Job
    <3>1. \A at \in AllPlaces, run \in 0..MaxRuns :
            [at |-> at, run |-> run, next |-> 1, n |-> 0, got |-> "ok", kept |-> <<>>] \in Job
      BY DEF Job, Outcomes
    <3>2. QED
      BY <2>4, <2>5, <3>1
  <2>7. Len(k.kept) = k.next - 1
    BY <2>3
  <2>8. QED
    BY <1>2, <2>2, <2>3, <2>6, <2>7 DEF PlaceOf, Places, Runners
<1>8. CASE Clean(r) /\ j.n < 4
  <2>1. k = [j EXCEPT !.n = @ + 1] /\ j.at = "clean"
    BY <1>1, <1>2, <1>3, <1>4, <1>8 DEF Clean, Doing
  <2>2. k.at = j.at /\ k.run = j.run /\ k.next = j.next /\ k.n = j.n + 1 /\ k.kept = j.kept
    BY <1>5, <2>1 DEF Job
  <2>3. k \in Job
    BY <1>5, <2>1, <1>8 DEF Job
  <2>4. QED
    BY <1>5, <2>1, <2>2, <2>3 DEF PlaceOf
<1>9. CASE Clean(r) /\ ~(j.n < 4)
  <2>1. k = [j EXCEPT !.at = "execute", !.n = 0] /\ j.at = "clean"
    BY <1>1, <1>2, <1>3, <1>4, <1>9 DEF Clean, Doing
  <2>2. k.at = "execute" /\ k.run = j.run /\ k.next = j.next /\ k.n = 0 /\ k.kept = j.kept
    BY <1>5, <2>1 DEF Job
  <2>3. k = [at |-> "execute", run |-> j.run, next |-> j.next, n |-> 0,
               got |-> j.got, kept |-> j.kept]
    BY <1>5, <2>1 DEF Job
  <2>4. k \in Job
    BY <1>5, <2>3 DEF Job, AllPlaces
  <2>5. QED
    BY <1>5, <2>1, <2>2, <2>4 DEF PlaceOf, Places
<1>10. CASE Execute(r)
  <2>1. PICK o \in Outcomes : k = [j EXCEPT !.at = "write", !.got = o] /\ j.at = "execute"
    BY <1>1, <1>3, <1>4, <1>10 DEF Execute, Doing
  <2>2. k.at = "write" /\ k.run = j.run /\ k.next = j.next /\ k.n = j.n /\ k.kept = j.kept
    BY <1>5, <2>1 DEF Job
  <2>3. k \in Job
    BY <1>5, <2>1 DEF Job, AllPlaces
  <2>4. QED
    BY <1>5, <2>1, <2>2, <2>3 DEF PlaceOf, Places
<1>11. CASE Write(r)
  <2>1. PICK kept : kept = Append(j.kept, j.got)
    OBVIOUS
  <2>2. j.n \in 0..3 /\ j.at = "write"
    BY <1>3, <1>5, <1>11 DEF Write, Doing, PlaceOf
  <2>3. kept \in Seq(Outcomes) /\ Len(kept) = Len(j.kept) + 1 /\ Len(j.kept) \in Nat
    BY <1>5, <2>1
  <2>4. CASE j.n + 1 < 4
    <3>1. k = [j EXCEPT !.n = @ + 1]
      <4>1. job'[r] = [job[r] EXCEPT !.n = @ + 1]
        BY <1>1, <1>2, <1>3, <1>11, <2>4 DEF Write
      <4>2. QED
        BY <1>3, <1>4, <4>1
    <3>2. k.at = j.at /\ k.run = j.run /\ k.next = j.next /\ k.n = j.n + 1 /\ k.kept = j.kept
      BY <1>5, <3>1 DEF Job
    <3>3. k \in Job
      BY <1>5, <2>2, <3>1 DEF Job
    <3>4. QED
      BY <1>5, <2>2, <2>4, <3>2, <3>3 DEF PlaceOf
  <2>5. CASE ~(j.n + 1 < 4) /\ r = "main"
    <3>1. k = [j EXCEPT !.at = "checkpoint", !.n = 0]
      BY <1>1, <1>2, <1>3, <1>4, <1>11, <2>5 DEF Write
    <3>2. k.at = "checkpoint" /\ k.run = j.run /\ k.next = j.next /\ k.n = 0
      BY <1>5, <3>1 DEF Job
    <3>3. k = [at |-> "checkpoint", run |-> j.run, next |-> j.next, n |-> 0,
               got |-> j.got, kept |-> j.kept]
      BY <1>5, <3>1 DEF Job
    <3>4. k \in Job
      BY <1>5, <3>3 DEF Job, AllPlaces
    <3>5. QED
      BY <1>5, <2>2, <2>5, <3>2, <3>4 DEF PlaceOf, Places
  <2>6. CASE /\ ~(j.n + 1 < 4) /\ r = "i386"
             /\ Len(kept) = Len(I386Captures) \/ BuildFailed(kept)
    <3>1. k = [j EXCEPT !.at = "index", !.n = 0, !.kept = kept]
      BY <1>1, <1>2, <1>3, <1>4, <1>11, <2>1, <2>6 DEF Write
    <3>2. Len(kept) >= Len(I386Builds)
      BY <1>2, <2>6 DEF BuildFailed
    <3>3. k.at = "index" /\ k.run = j.run /\ k.next = j.next /\ k.kept = kept
      BY <1>5, <3>1 DEF Job
    <3>4. k = [at |-> "index", run |-> j.run, next |-> j.next, n |-> 0,
               got |-> j.got, kept |-> kept]
      BY <1>5, <3>1 DEF Job
    <3>5. k \in Job
      BY <1>5, <2>3, <3>4 DEF Job, AllPlaces
    <3>6. QED
      BY <1>5, <2>2, <2>6, <3>2, <3>3, <3>5 DEF PlaceOf, Places
  <2>7. CASE /\ ~(j.n + 1 < 4) /\ r = "i386"
             /\ ~(Len(kept) = Len(I386Captures) \/ BuildFailed(kept))
    <3>1. k = [j EXCEPT !.at = "clean", !.n = 0, !.kept = kept, !.next = @ + 1]
      <4>1. job'[r] = [job[r] EXCEPT !.at = "clean", !.n = 0, !.kept = kept, !.next = @ + 1]
        BY <1>1, <1>2, <1>3, <1>11, <2>1, <2>7 DEF Write
      <4>2. QED
        BY <1>3, <1>4, <4>1
    <3>2. Len(kept) = j.next /\ CapturesOf(r) = I386Captures /\ j.next <= Len(CapturesOf(r))
      BY <1>5, <2>2, <2>3, <2>7 DEF PlaceOf, CapturesOf
    <3>3. j.next + 1 <= Len(CapturesOf(r))
      BY <1>2, <1>5, <2>7, <3>2
    <3>4. k.at = "clean" /\ k.run = j.run /\ k.next = j.next + 1 /\ k.kept = kept
      BY <1>5, <3>1 DEF Job
    <3>5. k = [at |-> "clean", run |-> j.run, next |-> j.next + 1, n |-> 0,
               got |-> j.got, kept |-> kept]
      BY <1>5, <3>1 DEF Job
    <3>6. k \in Job
      BY <1>5, <2>3, <3>5 DEF Job, AllPlaces
    <3>7. Len(k.kept) = k.next - 1
      BY <1>5, <3>2, <3>4
    <3>8. QED
      BY <1>5, <2>2, <2>7, <3>3, <3>4, <3>6, <3>7 DEF PlaceOf, Places
  <2>8. QED
    BY <2>4, <2>5, <2>6, <2>7 DEF Runners
<1>12. CASE Interrupt(r)
  <2>1. k = Idle
    BY <1>1, <1>4, <1>12 DEF Interrupt
  <2>2. QED
    BY <1>6, <2>1
<1>13. CASE r = "main" /\ (WriteEnvironment \/ MarkRunning)
  <2>1. /\ j.at \in {"environment", "mark"}
        /\ k = [j EXCEPT !.at = "mark"] \/ k = [j EXCEPT !.at = "clean"]
    BY <1>1, <1>3, <1>4, <1>13 DEF WriteEnvironment, MarkRunning, Doing
  <2>2. k.at \in {"mark", "clean"} /\ k.run = j.run /\ k.next = j.next /\ k.n = j.n
    BY <1>5, <2>1 DEF Job
  <2>3. k \in Job
    BY <1>5, <2>1 DEF Job, AllPlaces
  <2>4. QED
    BY <1>5, <1>13, <2>1, <2>2, <2>3 DEF PlaceOf, Places
<1>14. CASE r = "main" /\ Checkpoint
  <2>1. k = [j EXCEPT !.next = IF j.next < Len(CapturesOf(r)) THEN @ + 1 ELSE @,
                      !.at = IF j.next < Len(CapturesOf(r)) THEN "clean" ELSE "complete"]
    BY <1>1, <1>3, <1>4, <1>14 DEF Checkpoint, CapturesOf
  <2>2. j.at # "idle"
    BY <1>3, <1>14 DEF Checkpoint, Doing
  <2>3. /\ k.at \in {"clean", "complete"} /\ k.run = j.run
        /\ k.next = IF j.next < Len(CapturesOf(r)) THEN j.next + 1 ELSE j.next
    BY <1>5, <2>1 DEF Job
  <2>4. k = [at |-> k.at, run |-> j.run, next |-> k.next, n |-> j.n,
               got |-> j.got, kept |-> j.kept]
    BY <1>5, <2>1, <2>3 DEF Job
  <2>5. k.at \in AllPlaces /\ k.next \in Nat \ {0}
    BY <1>5, <2>3 DEF AllPlaces
  <2>6. k \in Job
    BY <1>5, <2>4, <2>5 DEF Job
  <2>7. QED
    BY <1>2, <1>5, <1>14, <2>2, <2>3, <2>6 DEF PlaceOf, Places
<1>15. CASE (r = "main" /\ Complete) \/ (r = "i386" /\ WriteI386Index)
  <2>1. k = Idle
    BY <1>1, <1>4, <1>15 DEF Complete, WriteI386Index
  <2>2. QED
    BY <1>6, <2>1
<1>16. QED
  BY <1>7, <1>8, <1>9, <1>10, <1>11, <1>12, <1>13, <1>14, <1>15 DEF RunnerStep

-----------------------------------------------------------------------------
(* What each step of a runner does. *)

\* One file of a capture is replaced.
DiskSet(c, i, v) == files' = [files EXCEPT ![c][Whole(i)] = v]

\* The others stay.
LEMMA DiskEffects ==
  ASSUME Types, NEW c \in Captures, NEW i \in 1..4, NEW v \in File, DiskSet(c, i, v)
  PROVE  /\ files' \in [Captures -> [Kinds -> File]]
         /\ \A d \in Captures : d # c => files'[d] = files[d]
         /\ \A l \in 1..4 : files'[c][Whole(l)] = IF l = i THEN v ELSE files[c][Whole(l)]
<1>1. /\ files \in [Captures -> [Kinds -> File]] /\ \A l \in 1..4 : Whole(l) \in Kinds
      /\ \A l, m \in 1..4 : Whole(l) = Whole(m) => l = m
  BY FourFiles DEF Types
<1>2. PICK w : w = Whole(i)
  OBVIOUS
<1>3. files' = [files EXCEPT ![c][w] = v] /\ w \in Kinds
  BY <1>1, <1>2 DEF DiskSet
<1>4. files'[c] = [files[c] EXCEPT ![w] = v] /\ files[c] \in [Kinds -> File]
  BY <1>1, <1>3
<1>5. \A d \in Captures : d # c => files'[d] = files[d]
  BY <1>1, <1>3
<1>6. files' \in [Captures -> [Kinds -> File]]
  BY <1>1, <1>3
<1>7. \A l \in 1..4 : files'[c][Whole(l)] = IF l = i THEN v ELSE files[c][Whole(l)]
  BY <1>1, <1>2, <1>3, <1>4
<1>8. QED
  BY <1>5, <1>6, <1>7

\* What a runner writes is a file.
LEMMA FreshIsFile ==
  ASSUME Types, PlaceInv, NEW r \in Runners, ~Doing(r, "idle")
  PROVE  Fresh(r) \in File /\ Fresh(r) # NoFile /\ NoFile \in File
<1>1. job[r].run \in 1..MaxRuns /\ job[r].got \in Outcomes
  <2>1. job[r] \in Job
    BY DEF Types
  <2>2. QED
    BY <2>1, JobFields DEF PlaceInv, PlaceOf, Doing
<1>2. NoFile \in File
  BY DEF File
<1>3. Fresh(r) \in File
  BY <1>1 DEF Fresh, File
<1>4. Fresh(r).run # 0 /\ NoFile.run = 0
  BY <1>1, RunAssumption DEF Fresh, NoFile
<1>5. QED
  BY <1>2, <1>3, <1>4

\* Where a runner is and which capture it is at, before and after.
LEMMA AtCapture ==
  ASSUME Types, PlaceInv, NEW r \in Runners
  PROVE  /\ job[r] \in Job /\ job[r].next \in 1..Len(CapturesOf(r)) /\ job[r].n \in 0..4
         /\ Current(r) \in Captures
<1>1. job[r] \in Job
  BY DEF Types
<1>2. Len(CapturesOf(r)) \in Nat
  BY CaptureSequences
<1>3. job[r].next \in 1..Len(CapturesOf(r)) /\ job[r].n \in 0..4
  BY <1>1, <1>2, JobFields DEF PlaceInv, PlaceOf
<1>4. QED
  BY <1>1, <1>3, CapturesApart DEF Current

Same(r) ==
  /\ job'[r].run = job[r].run /\ job'[r].got = job[r].got /\ job'[r].next = job[r].next

\* Removing one file, or going on when all are removed.
LEMMA CleanEffects ==
  ASSUME Types, PlaceInv, NEW r \in Runners, Clean(r)
  PROVE  /\ Same(r) /\ job[r].at = "clean"
         /\ \/ /\ job[r].n + 1 \in 1..4 /\ DiskSet(Current(r), job[r].n + 1, NoFile)
               /\ job'[r].at = "clean" /\ job'[r].n = job[r].n + 1
            \/ /\ job[r].n = 4 /\ UNCHANGED files
               /\ job'[r].at = "execute" /\ job'[r].n = 0
<1>1. job \in [Runners -> Job] /\ job[r] \in Job /\ job[r].n \in 0..4
  BY AtCapture DEF Types
<1>2. Len(CAPTURE_SUFFIXES) = 4
  BY FourFiles
<1>3. CASE job[r].n < 4
  <2>1. /\ job' = [job EXCEPT ![r].n = @ + 1]
        /\ files' = [files EXCEPT ![Current(r)][CAPTURE_SUFFIXES[job[r].n + 1]] = NoFile]
    BY <1>2, <1>3 DEF Clean
  <2>2. job'[r] = [job[r] EXCEPT !.n = @ + 1]
    BY <1>1, <2>1
  <2>3. Same(r) /\ job'[r].at = job[r].at /\ job'[r].n = job[r].n + 1
    BY <1>1, <2>2 DEF Same, Job
  <2>4. QED
    BY <1>1, <1>3, <2>1, <2>3 DEF Clean, Doing, DiskSet, Whole
<1>4. CASE ~(job[r].n < 4)
  <2>1. job' = [job EXCEPT ![r].at = "execute", ![r].n = 0] /\ UNCHANGED files
    BY <1>2, <1>4 DEF Clean
  <2>2. job'[r] = [job[r] EXCEPT !.at = "execute", !.n = 0]
    BY <1>1, <2>1
  <2>3. Same(r) /\ job'[r].at = "execute" /\ job'[r].n = 0
    BY <1>1, <2>2 DEF Same, Job
  <2>4. QED
    BY <1>1, <1>4, <2>1, <2>3 DEF Clean, Doing
<1>5. QED
  BY <1>3, <1>4

\* Writing one file, and going on after the last one.
LEMMA WriteEffects ==
  ASSUME Types, PlaceInv, NEW r \in Runners, Write(r)
  PROVE  /\ job[r].at = "write" /\ job[r].n + 1 \in 1..4
         /\ DiskSet(Current(r), job[r].n + 1, Fresh(r))
         /\ \/ Same(r) /\ job'[r].at = "write" /\ job'[r].n = job[r].n + 1
            \/ /\ Same(r) /\ r = "main" /\ job'[r].at = "checkpoint"
               /\ job[r].n = 3 /\ job'[r].n = 0
            \/ r = "i386" /\ job'[r].at \in {"index", "clean"} /\ job'[r].n = 0
<1>1. job \in [Runners -> Job] /\ job[r] \in Job /\ job[r].n \in 0..4
  BY AtCapture DEF Types
<1>2. Len(CAPTURE_SUFFIXES) = 4
  BY FourFiles
<1>3. job[r].at = "write" /\ job[r].n \in 0..3
  BY <1>1 DEF Write, Doing, PlaceInv, PlaceOf
<1>4. DiskSet(Current(r), job[r].n + 1, Fresh(r))
  BY DEF Write, DiskSet, Whole, Fresh
<1>5. CASE job[r].n + 1 < 4
  <2>1. job'[r] = [job[r] EXCEPT !.n = @ + 1]
    BY <1>1, <1>2, <1>5 DEF Write
  <2>2. Same(r) /\ job'[r].at = "write" /\ job'[r].n = job[r].n + 1
    BY <1>1, <1>3, <2>1 DEF Same, Job
  <2>3. QED
    BY <1>3, <1>4, <2>2
<1>6. CASE ~(job[r].n + 1 < 4) /\ r = "main"
  <2>1. job'[r] = [job[r] EXCEPT !.at = "checkpoint", !.n = 0]
    BY <1>1, <1>2, <1>6 DEF Write
  <2>2. Same(r) /\ job'[r].at = "checkpoint" /\ job'[r].n = 0
    BY <1>1, <2>1 DEF Same, Job
  <2>3. QED
    BY <1>3, <1>4, <1>6, <2>2
<1>7. CASE ~(job[r].n + 1 < 4) /\ r = "i386"
  <2>1. PICK kept : kept = Append(job[r].kept, job[r].got)
    OBVIOUS
  <2>2. \/ job'[r] = [job[r] EXCEPT !.at = "index", !.n = 0, !.kept = kept]
        \/ job'[r] = [job[r] EXCEPT !.at = "clean", !.n = 0, !.kept = kept, !.next = @ + 1]
    BY <1>1, <1>2, <1>7, <2>1 DEF Write
  <2>3. job'[r].at \in {"index", "clean"} /\ job'[r].n = 0
    BY <1>1, <2>2 DEF Job
  <2>4. QED
    BY <1>3, <1>4, <1>7, <2>3
<1>8. QED
  BY <1>5, <1>6, <1>7 DEF Runners

\* The start of a run.
LEMMA BeginEffects ==
  ASSUME Types, NEW r \in Runners, Begin(r)
  PROVE  /\ job[r].at = "idle" /\ job'[r].run = runs + 1 /\ runs' = runs + 1
         /\ job'[r].next = 1 /\ job'[r].n = 0
         /\ job'[r].at = IF r = "main" THEN "environment" ELSE "clean"
         /\ UNCHANGED <<files, environment, index, i386_index>> /\ (Overlap \/ Quiet)
<1>1. job \in [Runners -> Job]
  BY DEF Types
<1>2. job'[r] = [Idle EXCEPT !.run = runs + 1,
                   !.at = IF r = "main" THEN "environment" ELSE "clean"]
  BY <1>1 DEF Begin
<1>3. /\ job'[r].run = runs + 1 /\ job'[r].next = 1 /\ job'[r].n = 0
      /\ job'[r].at = IF r = "main" THEN "environment" ELSE "clean"
  BY <1>2 DEF Idle
<1>4. QED
  BY <1>3 DEF Begin, Doing

\* The command is run, whatever comes of it.
LEMMA ExecuteEffects ==
  ASSUME Types, NEW r \in Runners, Execute(r)
  PROVE  /\ job[r].at = "execute" /\ job'[r].at = "write"
         /\ job'[r].run = job[r].run /\ job'[r].next = job[r].next /\ job'[r].n = job[r].n
         /\ UNCHANGED <<files, environment, index, i386_index, runs>>
<1>1. job \in [Runners -> Job] /\ job[r] \in Job
  BY DEF Types
<1>2. PICK o \in Outcomes : job'[r] = [job[r] EXCEPT !.at = "write", !.got = o]
  BY <1>1 DEF Execute
<1>3. QED
  BY <1>1, <1>2 DEF Execute, Doing, Job

\* The end of a run, and an interruption.
LEMMA StopEffects ==
  ASSUME Types, NEW r \in Runners,
         Interrupt(r) \/ (r = "main" /\ Complete) \/ (r = "i386" /\ WriteI386Index)
  PROVE  /\ job[r].at # "idle" /\ job'[r].at = "idle" /\ UNCHANGED <<files, environment, runs>>
         /\ Complete => /\ job["main"].at = "complete"
                        /\ index' = [index EXCEPT !.state = "complete"]
         /\ ~Complete => UNCHANGED index
<1>1. job \in [Runners -> Job]
  BY DEF Types
<1>2. job'[r].at = "idle"
  BY <1>1 DEF Interrupt, Complete, WriteI386Index, Idle
<1>3. QED
  BY <1>2 DEF Interrupt, Complete, WriteI386Index, Doing

\* The environment and the index of the new run.
LEMMA AnnounceEffects ==
  ASSUME Types, NEW r \in Runners, r = "main", WriteEnvironment \/ MarkRunning
  PROVE  /\ Same(r) /\ job'[r].n = job[r].n /\ UNCHANGED <<files, runs>>
         /\ WriteEnvironment => /\ job[r].at = "environment" /\ job'[r].at = "mark"
                                /\ environment' = job[r].run /\ UNCHANGED index
         /\ MarkRunning => /\ job[r].at = "mark" /\ job'[r].at = "clean"
                           /\ index' = [run |-> job[r].run, state |-> "running",
                                        recorded |-> 0]
                           /\ UNCHANGED environment
<1>1. job \in [Runners -> Job] /\ job[r] \in Job
  BY DEF Types
<1>2. CASE WriteEnvironment
  <2>1. job'[r] = [job[r] EXCEPT !.at = "mark"]
    BY <1>1, <1>2 DEF WriteEnvironment
  <2>2. Same(r) /\ job'[r].n = job[r].n /\ job'[r].at = "mark"
    BY <1>1, <2>1 DEF Same, Job
  <2>3. job[r].at = "environment"
    BY <1>2 DEF WriteEnvironment, Doing
  <2>4. ~MarkRunning
    BY <2>3 DEF MarkRunning, Doing
  <2>5. QED
    BY <1>2, <2>2, <2>3, <2>4 DEF WriteEnvironment
<1>3. CASE MarkRunning
  <2>1. job'[r] = [job[r] EXCEPT !.at = "clean"]
    BY <1>1, <1>3 DEF MarkRunning
  <2>2. Same(r) /\ job'[r].n = job[r].n /\ job'[r].at = "clean"
    BY <1>1, <2>1 DEF Same, Job
  <2>3. job[r].at = "mark"
    BY <1>3 DEF MarkRunning, Doing
  <2>4. ~WriteEnvironment
    BY <2>3 DEF WriteEnvironment, Doing
  <2>5. QED
    BY <1>3, <2>2, <2>3, <2>4 DEF MarkRunning
<1>4. QED
  BY <1>2, <1>3

\* The index records a capture, and the runner goes on to the next.
LEMMA CheckpointEffects ==
  ASSUME Types, NEW r \in Runners, r = "main", Checkpoint
  PROVE  /\ job[r].at = "checkpoint" /\ UNCHANGED <<files, environment, runs>>
         /\ index' = [index EXCEPT !.recorded = job[r].next]
         /\ job'[r].run = job[r].run /\ job'[r].n = job[r].n
         /\ IF job[r].next < Len(MainCaptures)
            THEN job'[r].at = "clean" /\ job'[r].next = job[r].next + 1
            ELSE job'[r].at = "complete" /\ job'[r].next = job[r].next
<1>1. job \in [Runners -> Job] /\ job[r] \in Job
  BY DEF Types
<1>2. job'[r] = [job[r] EXCEPT
        !.next = IF job[r].next < Len(MainCaptures) THEN @ + 1 ELSE @,
        !.at = IF job[r].next < Len(MainCaptures) THEN "clean" ELSE "complete"]
  BY <1>1 DEF Checkpoint
<1>3. /\ job'[r].run = job[r].run /\ job'[r].n = job[r].n
      /\ job'[r].next = IF job[r].next < Len(MainCaptures) THEN job[r].next + 1 ELSE job[r].next
      /\ job'[r].at = IF job[r].next < Len(MainCaptures) THEN "clean" ELSE "complete"
  BY <1>1, <1>2 DEF Job
<1>4. job[r].at = "checkpoint" /\ UNCHANGED <<files, environment, runs>>
      /\ index' = [index EXCEPT !.recorded = job[r].next]
  BY DEF Checkpoint, Doing
<1>5. QED
  BY <1>3, <1>4

-----------------------------------------------------------------------------
(* What the analysis does. *)

\* The file a list of reads is at.
Next1(reads) == reads[analysis.next][1]
Next2(reads) == reads[analysis.next][2]
NextFile(reads) == files[Next1(reads)][Next2(reads)]
Seen(reads) == [capture |-> Next1(reads), run |-> NextFile(reads).run,
                outcome |-> NextFile(reads).outcome]

\* A read is of a file; refused, it ends the analysis, and accepted it is remembered.
LEMMA ReadEffects ==
  ASSUME Types, NEW reads \in Seq(Reads), analysis.next <= Len(reads),
         NEW then \in Analyses, ReadFrom(reads, then)
  PROVE  \/ analysis' = NotAnalysing
         \/ /\ Next1(reads) \in Captures /\ Next2(reads) \in Kinds
            /\ NextFile(reads) \in File /\ Accepts(NextFile(reads), Next2(reads))
            /\ Seen(reads) \in Entry
            /\ analysis' \in Analysis
            /\ analysis'.main = analysis.main
            /\ analysis'.seen = analysis.seen \cup {Seen(reads)}
            /\ IF analysis.next = Len(reads)
               THEN analysis'.at = then /\ analysis'.next = 1
               ELSE analysis'.at = analysis.at /\ analysis'.next = analysis.next + 1
<1>1. PICK a : a = analysis
  OBVIOUS
<1>2. /\ a \in Analysis /\ a.next \in 1..Len(reads) /\ a.seen \subseteq Entry
      /\ a.at \in Analyses /\ a.main \in 0..MaxRuns /\ a.i386 \in 0..MaxRuns
  BY <1>1 DEF Types, Analysis
<1>3. reads[a.next] \in Reads
  BY <1>2
<1>4. Next1(reads) \in Captures /\ Next2(reads) \in Kinds
  BY <1>1, <1>3 DEF Reads, Next1, Next2
<1>5. NextFile(reads) \in File
  BY <1>4 DEF Types, NextFile
<1>6. CASE ~Accepts(NextFile(reads), Next2(reads))
  BY <1>6 DEF ReadFrom, Abort, NextFile, Next1, Next2
<1>7. CASE Accepts(NextFile(reads), Next2(reads))
  <2>1. PICK new : new = Seen(reads)
    OBVIOUS
  <2>2. new \in Entry
    <3>1. PICK file : file = NextFile(reads)
      OBVIOUS
    <3>2. file # NoFile /\ file.outcome # "bad"
      BY <1>7, <3>1 DEF Accepts
    <3>3. file.run \in 1..MaxRuns /\ file.outcome \in Accepted
      BY <1>5, <3>1, <3>2 DEF File, Outcomes, Accepted
    <3>4. new = [capture |-> Next1(reads), run |-> file.run, outcome |-> file.outcome]
      BY <2>1, <3>1 DEF Seen
    <3>5. QED
      BY <1>4, <3>3, <3>4 DEF Entry
  <2>3. PICK more, next, at : /\ more = a.seen \cup {new}
                              /\ next = IF a.next = Len(reads) THEN 1 ELSE a.next + 1
                              /\ at = IF a.next = Len(reads) THEN then ELSE a.at
    OBVIOUS
  <2>4. more \subseteq Entry /\ next \in Nat \ {0} /\ at \in Analyses
    BY <1>2, <2>2, <2>3
  <2>5. analysis' = [a EXCEPT !.seen = more, !.next = next, !.at = at]
    BY <1>1, <1>7, <2>1, <2>3 DEF ReadFrom, NextFile, Next1, Next2, Seen
  <2>6. analysis' = [at |-> at, main |-> a.main, i386 |-> a.i386, next |-> next,
                     seen |-> more]
    BY <1>2, <2>5 DEF Analysis
  <2>7. analysis' \in Analysis
    BY <1>2, <2>4, <2>6 DEF Analysis
  <2>8. /\ analysis'.main = a.main /\ analysis'.seen = more
        /\ analysis'.next = next /\ analysis'.at = at
    BY <2>6
  <2>9. QED
    BY <1>1, <1>4, <1>5, <1>7, <2>1, <2>2, <2>3, <2>7, <2>8
<1>8. QED
  BY <1>6, <1>7

\* Where the analysis starts and ends, and what it publishes, is of its types.
LEMMA AnalysisTyped ==
  ASSUME Types, ReadPlace, AnalysisStep
  PROVE  analysis' \in Analysis /\ {json', md'} \subseteq Published /\ ReadPlace'
<1>1. /\ analysis \in Analysis /\ analysis.at \in Analyses /\ analysis.main \in 0..MaxRuns
      /\ analysis.i386 \in 0..MaxRuns /\ analysis.next \in Nat \ {0}
      /\ analysis.seen \subseteq Entry /\ {json, md} \subseteq Published
      /\ index.run \in 0..MaxRuns /\ i386_index.run \in 0..MaxRuns
  BY DEF Types, Analysis
<1>2. NotAnalysing \in Analysis /\ NotAnalysing.at = "idle" /\ NotAnalysing.next = 1
  BY RunAssumption DEF NotAnalysing, Analysis, Analyses
<1>3. BuildReads \in Seq(Reads) /\ CaseReads \in Seq(Reads)
      /\ Len(BuildReads) >= 1 /\ Len(CaseReads) >= 1
  <2>1. \A s \in Seq(Reads) : s # <<>> => Len(s) >= 1
    OBVIOUS
  <2>2. QED
    BY <2>1, ReadsTyped DEF GoodReads
<1>4. Results \in Published
  BY <1>1 DEF Results, Published
<1>5. CASE Abort /\ UNCHANGED published
  BY <1>1, <1>2, <1>5 DEF Abort, ReadPlace, published
<1>6. CASE StartAnalysis
  <2>1. analysis' = [NotAnalysing EXCEPT !.at = "i386index", !.main = index.run]
    BY <1>6 DEF StartAnalysis
  <2>2. analysis' = [at |-> "i386index", main |-> index.run, i386 |-> 0, next |-> 1, seen |-> {}]
    BY <2>1 DEF NotAnalysing
  <2>3. analysis' \in Analysis /\ analysis'.at = "i386index" /\ analysis'.next = 1
    BY <1>1, <2>2, RunAssumption DEF Analysis, Analyses
  <2>4. QED
    BY <1>1, <1>6, <2>3 DEF StartAnalysis, ReadPlace, published
<1>7. CASE ReadI386Index /\ ~Abort
  <2>1. analysis' = [analysis EXCEPT !.at = "builds", !.i386 = i386_index.run]
        /\ analysis.at = "i386index"
    BY <1>7 DEF ReadI386Index
  <2>2. analysis' = [at |-> "builds", main |-> analysis.main, i386 |-> i386_index.run,
                     next |-> analysis.next, seen |-> analysis.seen]
    BY <1>1, <2>1 DEF Analysis
  <2>3. /\ analysis' \in Analysis /\ analysis'.at = "builds"
        /\ analysis'.next = analysis.next
    BY <1>1, <2>2 DEF Analysis, Analyses
  <2>4. analysis.next = 1
    BY <2>1 DEF ReadPlace
  <2>5. QED
    BY <1>1, <1>3, <1>7, <2>3, <2>4 DEF ReadI386Index, ReadPlace, published
<1>8. CASE VerifyBuilds \/ AnalyzeCase
  <2>1. PICK reads, then :
          /\ reads \in Seq(Reads) /\ then \in {"i386builds", "json"}
          /\ analysis.next <= Len(reads) /\ ReadFrom(reads, then)
          /\ \/ analysis.at = "builds" /\ reads = BuildReads
             \/ analysis.at = "cases" /\ reads = CaseReads
    BY <1>3, <1>8 DEF VerifyBuilds, AnalyzeCase, ReadPlace
  <2>2. then \in Analyses
    BY <2>1 DEF Analyses
  <2>3. \/ analysis' = NotAnalysing
        \/ /\ analysis' \in Analysis
           /\ IF analysis.next = Len(reads)
              THEN analysis'.at = then /\ analysis'.next = 1
              ELSE analysis'.at = analysis.at /\ analysis'.next = analysis.next + 1
    BY <2>1, <2>2, ReadEffects
  <2>4. Len(reads) \in Nat
    BY <2>1
  <2>5. UNCHANGED published
    BY <1>8 DEF VerifyBuilds, AnalyzeCase
  <2>6. QED
    BY <1>1, <1>2, <2>1, <2>3, <2>4, <2>5 DEF ReadPlace, published
<1>9. CASE VerifyI386Builds /\ ~Abort
  <2>1. analysis' = [analysis EXCEPT !.at = "cases"] /\ analysis.at = "i386builds"
    BY <1>9 DEF VerifyI386Builds
  <2>2. /\ analysis' \in Analysis /\ analysis'.at = "cases"
        /\ analysis'.next = analysis.next
    BY <1>1, <2>1 DEF Analysis, Analyses
  <2>3. analysis.next = 1
    BY <2>1 DEF ReadPlace
  <2>4. QED
    BY <1>1, <1>3, <1>9, <2>2, <2>3 DEF VerifyI386Builds, ReadPlace, published
<1>10. CASE PublishJson
  <2>1. analysis' = [analysis EXCEPT !.at = "md"] /\ analysis.at = "json"
    BY <1>10 DEF PublishJson
  <2>2. analysis' \in Analysis /\ analysis'.at = "md" /\ analysis'.next = analysis.next
    BY <1>1, <2>1 DEF Analysis, Analyses
  <2>3. QED
    BY <1>1, <1>4, <1>10, <2>1, <2>2 DEF PublishJson, ReadPlace
<1>11. CASE PublishMd
  BY <1>1, <1>2, <1>4, <1>11 DEF PublishMd, ReadPlace
<1>12. QED
  BY <1>5, <1>6, <1>7, <1>8, <1>9, <1>10, <1>11
     DEF AnalysisStep, ReadI386Index, VerifyI386Builds, InterruptAnalysis

\* Every step keeps the types and the places.
LEMMA TypesNext ==
  ASSUME Types, PlaceInv, ReadPlace, [Next]_vars
  PROVE  Types' /\ PlaceInv' /\ ReadPlace'
<1>1. CASE AnalysisStep
  BY <1>1, AnalysisTyped, AnalysisEffects DEF Types, PlaceInv
<1>2. CASE UNCHANGED vars
  BY <1>2 DEF Types, PlaceInv, ReadPlace, vars
<1>3. ASSUME NEW r \in Runners, RunnerStep(r) PROVE Types' /\ PlaceInv' /\ ReadPlace'
  <2>1. job'[r] \in Job /\ PlaceOf(r, job'[r])
    BY <1>3, JobNext DEF PlaceInv
  <2>2. /\ UNCHANGED <<analysis, json, md>> /\ job' = [job EXCEPT ![r] = job'[r]]
        /\ job \in [Runners -> Job]
    BY <1>3, RunnerEffects DEF Types
  <2>3. job' \in [Runners -> Job] /\ \A q \in Runners : q # r => job'[q] = job[q]
    BY <2>1, <2>2
  <2>4. PlaceInv'
    BY <2>1, <2>3 DEF PlaceInv
  <2>5. /\ job[r] \in Job /\ job[r].next \in 1..Len(CapturesOf(r)) /\ job[r].n \in 0..4
        /\ Current(r) \in Captures /\ job[r].run \in 0..MaxRuns
        /\ runs \in 0..MaxRuns /\ MaxRuns \in Nat
    BY AtCapture, JobFields, RunAssumption DEF Types
  <2>6. files' \in [Captures -> [Kinds -> File]]
    <3>1. CASE Clean(r)
      <4>1. NoFile \in File
        BY DEF File
      <4>2. QED
        BY <2>5, <3>1, <4>1, CleanEffects, DiskEffects DEF Types
    <3>2. CASE Write(r)
      <4>1. Fresh(r) \in File
        BY <3>2, FreshIsFile DEF Write, Doing
      <4>2. QED
        BY <2>5, <3>2, <4>1, WriteEffects, DiskEffects
    <3>3. CASE ~Clean(r) /\ ~Write(r)
      <4>1. UNCHANGED files
        BY <1>3, <3>3 DEF RunnerStep, Begin, Execute, Interrupt, WriteEnvironment,
           MarkRunning, Checkpoint, Complete, WriteI386Index
      <4>2. QED
        BY <4>1 DEF Types
    <3>4. QED
      BY <3>1, <3>2, <3>3
  <2>7. environment' \in 0..MaxRuns /\ runs' \in 0..MaxRuns
    <3>1. CASE Begin(r)
      BY <2>5, <3>1 DEF Begin, Types
    <3>2. CASE r = "main" /\ WriteEnvironment
      BY <2>5, <3>2 DEF WriteEnvironment, Types
    <3>3. CASE ~Begin(r) /\ ~(r = "main" /\ WriteEnvironment)
      <4>1. UNCHANGED <<environment, runs>>
        BY <1>3, <3>3 DEF RunnerStep, Clean, Write, Execute, Interrupt, MarkRunning,
           Checkpoint, Complete, WriteI386Index
      <4>2. QED
        BY <4>1 DEF Types
    <3>4. QED
      BY <3>1, <3>2, <3>3
  <2>8. index' \in [run : 0..MaxRuns, state : {"none", "running", "complete"},
                    recorded : 0..Len(MainCaptures)]
    <3>1. Len(MainCaptures) \in Nat
      BY CaptureSequences
    <3>2. CASE r = "main" /\ MarkRunning
      <4>1. index' = [run |-> job[r].run, state |-> "running", recorded |-> 0]
        BY <3>2 DEF MarkRunning
      <4>2. QED
        BY <2>5, <3>1, <4>1
    <3>3. CASE r = "main" /\ Checkpoint
      <4>1. index' = [index EXCEPT !.recorded = job[r].next]
        BY <3>3 DEF Checkpoint
      <4>2. job[r].next \in 0..Len(MainCaptures)
        BY <2>5, <3>1, <3>3 DEF CapturesOf
      <4>3. QED
        BY <4>1, <4>2 DEF Types
    <3>4. CASE r = "main" /\ Complete
      BY <3>4 DEF Complete, Types
    <3>5. CASE ~(r = "main" /\ (MarkRunning \/ Checkpoint \/ Complete))
      <4>1. UNCHANGED index
        BY <1>3, <3>5 DEF RunnerStep, Begin, Clean, Write, Execute, Interrupt,
           WriteEnvironment, WriteI386Index
      <4>2. QED
        BY <4>1 DEF Types
    <3>6. QED
      BY <3>2, <3>3, <3>4, <3>5
  <2>9. i386_index' \in [run : 0..MaxRuns, builds : Seq(Outcomes)]
    <3>1. CASE r = "i386" /\ WriteI386Index
      <4>1. i386_index' = [run |-> job[r].run,
                           builds |-> SubSeq(job[r].kept, 1, Len(I386Builds))]
            /\ job[r].at = "index"
        BY <3>1 DEF WriteI386Index, Doing
      <4>2. /\ job[r].kept \in Seq(Outcomes) /\ Len(job[r].kept) >= Len(I386Builds)
            /\ Len(I386Builds) \in Nat
        BY <2>5, <3>1, <4>1, JobFields, CaptureAssumption DEF PlaceInv, PlaceOf
      <4>3. SubSeq(job[r].kept, 1, Len(I386Builds)) \in Seq(Outcomes)
        BY <4>2
      <4>4. QED
        BY <2>5, <4>1, <4>3
    <3>2. CASE ~(r = "i386" /\ WriteI386Index)
      <4>1. UNCHANGED i386_index
        BY <1>3, <3>2 DEF RunnerStep, Begin, Clean, Write, Execute, Interrupt,
           WriteEnvironment, MarkRunning, Checkpoint, Complete
      <4>2. QED
        BY <4>1 DEF Types
    <3>3. QED
      BY <3>1, <3>2
  <2>10. {json', md'} \subseteq Published /\ analysis' \in Analysis /\ ReadPlace'
    BY <2>2 DEF Types, ReadPlace
  <2>11. QED
    BY <2>3, <2>4, <2>6, <2>7, <2>8, <2>9, <2>10 DEF Types
<1>4. QED
  BY <1>1, <1>2, <1>3, StepSplit

-----------------------------------------------------------------------------
(* Captures are of one execution. *)

\* The part of FileInv about one runner.
FileOf(r) ==
  \A k \in 1..4 :
    /\ Doing(r, "clean") /\ k <= job[r].n => OnDisk(r, k) = NoFile
    /\ Doing(r, "execute") => OnDisk(r, k) = NoFile
    /\ Doing(r, "write") => OnDisk(r, k) = IF k <= job[r].n THEN Fresh(r) ELSE NoFile
    /\ Doing(r, "checkpoint") => OnDisk(r, k) = Fresh(r)
WholeOf(c) ==
  \A k, l \in 1..4 : \/ NoFile \in {files[c][Whole(k)], files[c][Whole(l)]}
                     \/ files[c][Whole(k)] = files[c][Whole(l)]

\* The properties, capture by capture and runner by runner.
LEMMA ByCapture ==
  /\ FileInv <=> \A r \in Runners : FileOf(r)
  /\ CapturesWhole <=> \A c \in Captures : WholeOf(c)
<1>1. FileInv <=> \A r \in Runners : FileOf(r)
  BY DEF FileInv, FileOf
<1>2. ASSUME CapturesWhole PROVE \A c \in Captures : WholeOf(c)
  BY <1>2, FourFiles DEF CapturesWhole, WholeOf, Kinds
<1>3. ASSUME \A c \in Captures : WholeOf(c) PROVE CapturesWhole
  <2>1. SUFFICES ASSUME NEW c \in Captures, NEW s \in Kinds, NEW t \in Kinds
                 PROVE  NoFile \in {files[c][s], files[c][t]} \/ files[c][s] = files[c][t]
    BY DEF CapturesWhole, Kinds
  <2>2. PICK k \in 1..4, l \in 1..4 : s = Whole(k) /\ t = Whole(l)
    BY FourFiles
  <2>3. QED
    BY <1>3, <2>2 DEF WholeOf
<1>4. QED
  BY <1>1, <1>2, <1>3

\* A runner's step keeps what is known of its own capture, and the capture whole.
LEMMA OwnFiles ==
  ASSUME Types, PlaceInv, NEW r \in Runners, FileOf(r), RunnerStep(r),
         NEW c \in Captures, c = Current(r), WholeOf(c)
  PROVE  FileOf(r)' /\ WholeOf(c)'
<1>1. job[r].n \in 0..4 /\ NoFile \in File
  BY AtCapture DEF File
<1>2. /\ job[r].at \in {"environment", "mark", "execute", "checkpoint"} => job[r].n = 0
      /\ job[r].at = "write" => job[r].n < 4
  BY DEF PlaceInv, PlaceOf
<1>3. job'[r].next = job[r].next => Current(r)' = c
  BY DEF Current
<1>4. \A k \in 1..4 : OnDisk(r, k) = files[c][Whole(k)]
  BY DEF OnDisk
<1>5. CASE Clean(r)
  <2>1. Same(r) /\ job[r].at = "clean" /\ Current(r)' = c
    BY <1>3, <1>5, CleanEffects DEF Same
  <2>2. \A k \in 1..4 : k <= job[r].n => files[c][Whole(k)] = NoFile
    BY <1>4, <2>1 DEF FileOf, Doing
  <2>3. CASE /\ job[r].n + 1 \in 1..4 /\ DiskSet(c, job[r].n + 1, NoFile)
             /\ job'[r].at = "clean" /\ job'[r].n = job[r].n + 1
    <3>1. \A k \in 1..4 : files'[c][Whole(k)]
            = IF k = job[r].n + 1 THEN NoFile ELSE files[c][Whole(k)]
      BY <1>1, <2>3, DiskEffects
    <3>2. \A k \in 1..4 : k <= job[r].n + 1 => files'[c][Whole(k)] = NoFile
      BY <1>1, <2>2, <3>1
    <3>3. WholeOf(c)'
      BY <3>1 DEF WholeOf
    <3>4. FileOf(r)'
      BY <2>1, <2>3, <3>2 DEF FileOf, Doing, OnDisk
    <3>5. QED
      BY <3>3, <3>4
  <2>4. CASE /\ job[r].n = 4 /\ UNCHANGED files
             /\ job'[r].at = "execute" /\ job'[r].n = 0
    <3>1. \A k \in 1..4 : files'[c][Whole(k)] = NoFile
      BY <2>2, <2>4
    <3>2. QED
      BY <2>1, <2>4, <3>1 DEF FileOf, Doing, OnDisk, WholeOf
  <2>5. QED
    BY <1>5, <2>3, <2>4, CleanEffects
<1>6. CASE Execute(r)
  <2>1. /\ job[r].at = "execute" /\ job'[r].at = "write" /\ Current(r)' = c
        /\ job'[r].n = 0 /\ UNCHANGED files
    BY <1>2, <1>3, <1>6, ExecuteEffects
  <2>2. \A k \in 1..4 : files'[c][Whole(k)] = NoFile
    BY <1>4, <2>1 DEF FileOf, Doing
  <2>3. QED
    BY <2>1, <2>2 DEF FileOf, Doing, OnDisk, WholeOf
<1>7. CASE Write(r)
  <2>1. /\ job[r].at = "write" /\ job[r].n + 1 \in 1..4
        /\ DiskSet(c, job[r].n + 1, Fresh(r))
    BY <1>7, WriteEffects
  <2>2. Fresh(r) \in File
    BY <2>1, FreshIsFile DEF Doing
  <2>3. \A k \in 1..4 : files[c][Whole(k)] = IF k <= job[r].n THEN Fresh(r) ELSE NoFile
    BY <1>4, <2>1 DEF FileOf, Doing
  <2>4. \A k \in 1..4 : files'[c][Whole(k)]
          = IF k = job[r].n + 1 THEN Fresh(r) ELSE files[c][Whole(k)]
    BY <2>1, <2>2, DiskEffects
  <2>5. \A k \in 1..4 : files'[c][Whole(k)]
          = IF k <= job[r].n + 1 THEN Fresh(r) ELSE NoFile
    BY <1>1, <2>3, <2>4
  <2>6. WholeOf(c)'
    BY <2>5 DEF WholeOf
  <2>7. CASE Same(r) /\ job'[r].at = "write" /\ job'[r].n = job[r].n + 1
    <3>1. Fresh(r)' = Fresh(r) /\ Current(r)' = c
      BY <1>3, <2>7 DEF Fresh, Same
    <3>2. QED
      BY <2>5, <2>6, <2>7, <3>1 DEF FileOf, Doing, OnDisk
  <2>8. CASE Same(r) /\ job'[r].at = "checkpoint" /\ job[r].n = 3
    <3>1. Fresh(r)' = Fresh(r) /\ Current(r)' = c
      BY <1>3, <2>8 DEF Fresh, Same
    <3>2. \A k \in 1..4 : files'[c][Whole(k)] = Fresh(r)
      BY <2>5, <2>8
    <3>3. QED
      BY <2>6, <2>8, <3>1, <3>2 DEF FileOf, Doing, OnDisk
  <2>9. CASE job'[r].at \in {"index", "clean"} /\ job'[r].n = 0
    BY <2>6, <2>9 DEF FileOf, Doing
  <2>10. QED
    BY <1>7, <2>7, <2>8, <2>9, WriteEffects
<1>8. CASE ~Clean(r) /\ ~Execute(r) /\ ~Write(r)
  <2>1. /\ UNCHANGED files
        /\ \/ job'[r].at \notin {"clean", "execute", "write", "checkpoint"}
           \/ job'[r].at = "clean" /\ job'[r].n = 0
    <3>1. CASE Begin(r)
      BY <3>1, BeginEffects
    <3>2. CASE r = "main" /\ (WriteEnvironment \/ MarkRunning)
      BY <1>2, <3>2, AnnounceEffects
    <3>3. CASE r = "main" /\ Checkpoint
      BY <1>2, <3>3, CheckpointEffects
    <3>4. CASE Interrupt(r) \/ (r = "main" /\ Complete) \/ (r = "i386" /\ WriteI386Index)
      <4>1. CASE Interrupt(r)
        BY <4>1, StopEffects
      <4>2. CASE r = "main" /\ Complete
        BY <4>2, StopEffects
      <4>3. CASE r = "i386" /\ WriteI386Index
        BY <4>3, StopEffects
      <4>4. QED
        BY <3>4, <4>1, <4>2, <4>3
    <3>5. QED
      BY <1>8, <3>1, <3>2, <3>3, <3>4 DEF RunnerStep
  <2>2. WholeOf(c)'
    BY <2>1 DEF WholeOf
  <2>3. QED
    BY <2>1, <2>2 DEF FileOf, Doing
<1>9. QED
  BY <1>5, <1>6, <1>7, <1>8

\* The captures of two runners are not the same.
LEMMA RunnersApart ==
  ASSUME Types, PlaceInv, NEW r \in Runners, NEW q \in Runners, r # q
  PROVE  Current(r) # Current(q)
<1>1. /\ job[r].next \in 1..Len(CapturesOf(r)) /\ job[q].next \in 1..Len(CapturesOf(q))
  BY AtCapture
<1>2. \/ CapturesOf(r) = MainCaptures /\ CapturesOf(q) = I386Captures
      \/ CapturesOf(q) = MainCaptures /\ CapturesOf(r) = I386Captures
  BY DEF CapturesOf, Runners
<1>3. QED
  BY <1>1, <1>2, CapturesApart DEF Current

\* Every step keeps FileInv, and every capture whole.
LEMMA FilesNext ==
  ASSUME Types, PlaceInv, FileInv, CapturesWhole, [Next]_vars
  PROVE  FileInv' /\ CapturesWhole'
<1>1. SUFFICES (\A r \in Runners : FileOf(r)') /\ (\A c \in Captures : WholeOf(c)')
  <2>1. ASSUME \A r \in Runners : FileOf(r)' PROVE FileInv'
    BY <2>1 DEF FileInv, FileOf
  <2>2. ASSUME \A c \in Captures : WholeOf(c)' PROVE CapturesWhole'
    <3>1. SUFFICES ASSUME NEW c \in Captures, NEW s \in Kinds, NEW t \in Kinds
                   PROVE  \/ NoFile \in {files'[c][s], files'[c][t]}
                          \/ files'[c][s] = files'[c][t]
      BY DEF CapturesWhole, Kinds
    <3>2. PICK k \in 1..4, l \in 1..4 : s = Whole(k) /\ t = Whole(l)
      BY FourFiles
    <3>3. QED
      BY <2>2, <3>2 DEF WholeOf
  <2>3. QED
    BY <2>1, <2>2
<1>2. (\A r \in Runners : FileOf(r)) /\ (\A c \in Captures : WholeOf(c))
  BY ByCapture
<1>3. ASSUME UNCHANGED <<files, job>>
      PROVE  (\A r \in Runners : FileOf(r)') /\ (\A c \in Captures : WholeOf(c)')
  BY <1>2, <1>3 DEF FileOf, WholeOf, Doing, OnDisk, Fresh, Current
<1>4. CASE AnalysisStep \/ UNCHANGED vars
  BY <1>3, <1>4, AnalysisEffects DEF vars
<1>5. ASSUME NEW r \in Runners, RunnerStep(r)
      PROVE  (\A q \in Runners : FileOf(q)') /\ (\A c \in Captures : WholeOf(c)')
  <2>1. PICK c \in Captures : c = Current(r)
    BY AtCapture
  <2>2. FileOf(r)' /\ WholeOf(c)'
    BY <1>2, <1>5, <2>1, OwnFiles
  <2>3. /\ job' = [job EXCEPT ![r] = job'[r]] /\ job \in [Runners -> Job]
        /\ \A d \in Captures : d # c => files'[d] = files[d]
    BY <1>5, <2>1, RunnerEffects DEF Types
  <2>4. ASSUME NEW d \in Captures PROVE WholeOf(d)'
    <3>1. CASE d = c
      BY <2>2, <3>1
    <3>2. CASE d # c
      BY <1>2, <2>3, <3>2 DEF WholeOf
    <3>3. QED
      BY <3>1, <3>2
  <2>5. ASSUME NEW q \in Runners PROVE FileOf(q)'
    <3>1. CASE q = r
      BY <2>2, <3>1
    <3>2. CASE q # r
      <4>1. job'[q] = job[q]
        BY <2>3, <3>2
      <4>2. Current(q) \in Captures /\ Current(q) # c
        BY <2>1, <3>2, AtCapture, RunnersApart
      <4>3. \A k \in 1..4 : OnDisk(q, k)' = OnDisk(q, k)
        BY <2>3, <4>1, <4>2 DEF OnDisk, Current
      <4>4. QED
        BY <1>2, <4>1, <4>3 DEF FileOf, Doing, Fresh
    <3>3. QED
      BY <3>1, <3>2
  <2>6. QED
    BY <2>4, <2>5
<1>6. QED
  BY <1>4, <1>5, StepSplit

-----------------------------------------------------------------------------
(* The index promises what is there. *)

\* A main capture by its place.
LEMMA MainPlaces ==
  /\ Len(MainCaptures) \in Nat /\ CapturesOf("main") = MainCaptures
  /\ \A k \in 1..Len(MainCaptures) : MainCaptures[k] \in Captures
  /\ \A c \in ToSet(MainCaptures) : \E k \in 1..Len(MainCaptures) : c = MainCaptures[k]
  /\ \A k, l \in 1..Len(MainCaptures) : MainCaptures[k] = MainCaptures[l] => k = l
<1>1. MainCaptures \in Seq(STRING)
  BY CaptureSequences
<1>2. CapturesOf("main") = MainCaptures /\ "main" \in Runners
  BY DEF CapturesOf, Runners
<1>3. \A c \in ToSet(MainCaptures) : \E k \in 1..Len(MainCaptures) : c = MainCaptures[k]
  BY <1>1 DEF ToSet
<1>4. QED
  BY <1>1, <1>2, <1>3, CapturesApart

\* As long as the main runner, its captures and what it says of them stay, so do the
\* promises.
LEMMA IndexKept ==
  ASSUME Types, IndexInv, IndexIsBacked, EvidenceIsAnnounced,
         UNCHANGED <<environment, index>>, job'["main"] = job["main"],
         runs' \in Nat, runs' >= runs,
         \A k \in 1..Len(MainCaptures) : files'[MainCaptures[k]] = files[MainCaptures[k]]
  PROVE  IndexInv' /\ IndexIsBacked' /\ EvidenceIsAnnounced'
<1>1. /\ environment \in Nat /\ runs \in Nat /\ index.recorded \in 0..Len(MainCaptures)
      /\ "main" \in Runners /\ job["main"] \in Job
  BY RunAssumption DEF Types, Runners
<1>2. job["main"].run \in Nat
  BY <1>1, RunAssumption, JobFields
<1>3. IndexInv'
  BY <1>1, <1>2 DEF IndexInv, Doing, Marked
<1>4. IndexIsBacked'
  <2>1. \A k \in 1..index.recorded : k \in 1..Len(MainCaptures)
    BY <1>1, MainPlaces
  <2>2. QED
    BY <2>1 DEF IndexIsBacked
<1>5. EvidenceIsAnnounced'
  BY MainPlaces DEF EvidenceIsAnnounced
<1>6. QED
  BY <1>3, <1>4, <1>5

\* The promises kept by a step of the i386 runner, whose captures are others.
LEMMA IndexOther ==
  ASSUME Types, PlaceInv, IndexInv, IndexIsBacked, EvidenceIsAnnounced, RunnerStep("i386")
  PROVE  IndexInv' /\ IndexIsBacked' /\ EvidenceIsAnnounced'
<1>1. "i386" \in Runners /\ "main" \in Runners
  BY DEF Runners
<1>2. /\ UNCHANGED <<environment, index>> /\ job' = [job EXCEPT !["i386"] = job'["i386"]]
      /\ \A c \in Captures : c # Current("i386") => files'[c] = files[c]
  BY <1>1, RunnerEffects
<1>3. job'["main"] = job["main"]
  BY <1>1, <1>2 DEF Types
<1>4. runs' \in Nat /\ runs' >= runs
  <2>1. runs \in Nat /\ (runs' = runs \/ runs' = runs + 1)
    BY RunAssumption DEF Types, RunnerStep, Begin, Clean, Execute, Write, Interrupt,
       WriteI386Index
  <2>2. QED
    BY <2>1
<1>5. \A k \in 1..Len(MainCaptures) : files'[MainCaptures[k]] = files[MainCaptures[k]]
  <2>1. job["i386"].next \in 1..Len(I386Captures) /\ Current("i386") = I386Captures[job["i386"].next]
    BY <1>1, AtCapture DEF CapturesOf, Current
  <2>2. QED
    BY <1>2, <2>1, CapturesApart, MainPlaces
<1>6. QED
  BY <1>2, <1>3, <1>4, <1>5, IndexKept

\* The promises kept by a step of the main runner: it announces the run before it
\* touches a capture, touches none that the index records, and records none whose four
\* files are not there.
LEMMA IndexOwn ==
  ASSUME Types, PlaceInv, FileInv, IndexInv, IndexIsBacked, EvidenceIsAnnounced,
         RunnerStep("main")
  PROVE  IndexInv' /\ IndexIsBacked' /\ EvidenceIsAnnounced'
<1>1. PICK r \in Runners : r = "main"
  BY DEF Runners
<1>2. PICK c \in Captures : c = Current(r)
  BY AtCapture
<1>3. /\ job[r].next \in 1..Len(MainCaptures) /\ job[r].n \in 0..4 /\ job[r] \in Job
      /\ job[r].run \in Nat /\ runs \in Nat /\ environment \in Nat /\ index.run \in Nat
      /\ index.recorded \in 0..Len(MainCaptures) /\ c = MainCaptures[job[r].next]
      /\ files \in [Captures -> [Kinds -> File]]
  BY <1>1, <1>2, AtCapture, JobFields, RunAssumption DEF Types, CapturesOf, Current
<1>4. /\ index.state = "complete" => index.recorded = Len(MainCaptures)
      /\ \A k \in 1..index.recorded : \A s \in Kinds : files[MainCaptures[k]][s].run = index.run
  BY DEF IndexIsBacked, Kinds
<1>5. /\ index.run <= environment
      /\ \A k \in 1..Len(MainCaptures) : \A s \in Kinds :
           files[MainCaptures[k]][s].run \in Nat /\ files[MainCaptures[k]][s].run <= index.run
  <2>1. \A k \in 1..Len(MainCaptures) : MainCaptures[k] \in ToSet(MainCaptures)
    BY CaptureSequences DEF ToSet
  <2>2. \A f \in File : f.run \in Nat
    BY RunAssumption DEF File, NoFile
  <2>3. QED
    BY <1>3, <2>1, <2>2, MainPlaces DEF EvidenceIsAnnounced, Kinds
<1>6. /\ environment <= runs
      /\ job[r].at # "idle" => job[r].run <= runs
      /\ job[r].at = "environment" => environment <= job[r].run
      /\ job[r].at = "mark" => environment = job[r].run
      /\ job[r].at \in {"clean", "execute", "write", "checkpoint"} =>
           index = [run |-> job[r].run, state |-> "running", recorded |-> job[r].next - 1]
      /\ job[r].at = "complete" =>
           index = [run |-> job[r].run, state |-> "running", recorded |-> Len(MainCaptures)]
  BY <1>1 DEF IndexInv, Doing, Marked
<1>7. ASSUME index'.run <= environment',
             \A k \in 1..Len(MainCaptures) : \A s \in Kinds :
               files'[MainCaptures[k]][s].run <= index'.run
      PROVE  EvidenceIsAnnounced'
  BY <1>7, MainPlaces DEF EvidenceIsAnnounced, Kinds
<1>8. ASSUME index'.state = "complete" => index'.recorded = Len(MainCaptures),
             \A k \in 1..index'.recorded : \A s \in Kinds :
               files'[MainCaptures[k]][s].run = index'.run
      PROVE  IndexIsBacked'
  BY <1>8 DEF IndexIsBacked, Kinds
<1>9. ASSUME UNCHANGED <<index, files>>, index.run <= environment'
      PROVE  IndexIsBacked' /\ EvidenceIsAnnounced'
  BY <1>4, <1>5, <1>7, <1>8, <1>9
<1>10. CASE Begin(r)
  <2>1. /\ job'[r].at = "environment" /\ job'[r].run = runs + 1 /\ runs' = runs + 1
        /\ UNCHANGED <<files, environment, index>>
    BY <1>1, <1>10, BeginEffects
  <2>2. IndexInv'
    BY <1>1, <1>3, <1>6, <2>1 DEF IndexInv, Doing
  <2>3. QED
    BY <1>5, <1>9, <2>1, <2>2
<1>11. ASSUME NEW i \in 1..4, NEW v \in File, DiskSet(c, i, v), v.run \in {0, job[r].run},
              UNCHANGED <<environment, index, runs>>, job[r].at \in {"clean", "write"},
              Same(r), job'[r].at \in {"clean", "execute", "write", "checkpoint"}
       PROVE  IndexInv' /\ IndexIsBacked' /\ EvidenceIsAnnounced'
  <2>1. /\ \A d \in Captures : d # c => files'[d] = files[d]
        /\ \A l \in 1..4 : files'[c][Whole(l)] = IF l = i THEN v ELSE files[c][Whole(l)]
    BY <1>11, DiskEffects
  <2>2. index = [run |-> job[r].run, state |-> "running", recorded |-> job[r].next - 1]
    BY <1>6, <1>11
  <2>3. \A s \in Kinds : files'[c][s].run <= index.run
    <3>1. v.run <= index.run
      BY <1>3, <1>11, <2>2
    <3>2. \A s \in Kinds : files[c][s].run <= index.run
      BY <1>3, <1>5
    <3>3. \A s \in Kinds : files'[c][s] = v \/ files'[c][s] = files[c][s]
      BY <2>1, FourFiles
    <3>4. QED
      BY <3>1, <3>2, <3>3
  <2>4. \A k \in 1..Len(MainCaptures) : k # job[r].next =>
          files'[MainCaptures[k]] = files[MainCaptures[k]]
    BY <1>3, <2>1, MainPlaces
  <2>5. EvidenceIsAnnounced'
    <3>1. \A k \in 1..Len(MainCaptures) : \A s \in Kinds :
            files'[MainCaptures[k]][s].run <= index'.run
      BY <1>3, <1>5, <1>11, <2>3, <2>4
    <3>2. QED
      BY <1>5, <1>7, <1>11, <3>1
  <2>6. IndexIsBacked'
    <3>1. index.recorded = job[r].next - 1 /\ index.state = "running"
      BY <2>2
    <3>2. \A k \in 1..index.recorded : k \in 1..Len(MainCaptures) /\ k # job[r].next
      BY <1>3, <3>1, MainPlaces
    <3>3. \A k \in 1..index'.recorded : \A s \in Kinds :
            files'[MainCaptures[k]][s].run = index'.run
      BY <1>4, <1>11, <2>4, <3>2
    <3>4. QED
      BY <1>8, <1>11, <3>1, <3>3
  <2>7. IndexInv'
    BY <1>1, <1>6, <1>11, <2>2 DEF IndexInv, Doing, Marked, Same
  <2>8. QED
    BY <2>5, <2>6, <2>7
<1>12. CASE Clean(r)
  <2>1. UNCHANGED <<environment, index, runs>> /\ Same(r) /\ job[r].at = "clean"
    BY <1>12, CleanEffects DEF Clean
  <2>2. NoFile \in File /\ NoFile.run = 0
    BY DEF File, NoFile
  <2>3. CASE job[r].n + 1 \in 1..4 /\ DiskSet(c, job[r].n + 1, NoFile) /\ job'[r].at = "clean"
    BY <1>11, <2>1, <2>2, <2>3
  <2>4. CASE UNCHANGED files /\ job'[r].at = "execute"
    <3>1. IndexInv'
      BY <1>1, <1>6, <2>1, <2>4 DEF IndexInv, Doing, Marked, Same
    <3>2. QED
      BY <1>5, <1>9, <2>1, <2>4, <3>1
  <2>5. QED
    BY <1>2, <1>12, <2>3, <2>4, CleanEffects
<1>13. CASE Execute(r)
  <2>1. /\ job[r].at = "execute" /\ job'[r].at = "write" /\ job'[r].run = job[r].run
        /\ job'[r].next = job[r].next /\ UNCHANGED <<files, environment, index, runs>>
    BY <1>13, ExecuteEffects
  <2>2. IndexInv'
    BY <1>1, <1>6, <2>1 DEF IndexInv, Doing, Marked
  <2>3. QED
    BY <1>5, <1>9, <2>1, <2>2
<1>14. CASE Write(r)
  <2>1. /\ job[r].at = "write" /\ job[r].n + 1 \in 1..4
        /\ DiskSet(c, job[r].n + 1, Fresh(r)) /\ UNCHANGED <<environment, index, runs>>
        /\ Same(r) /\ job'[r].at \in {"write", "checkpoint"}
    BY <1>1, <1>2, <1>14, WriteEffects DEF Write
  <2>2. Fresh(r) \in File /\ Fresh(r).run = job[r].run
    BY <2>1, FreshIsFile DEF Doing, Fresh
  <2>3. QED
    BY <1>11, <2>1, <2>2
<1>15. CASE Interrupt(r)
  <2>1. job'[r].at = "idle" /\ UNCHANGED <<files, environment, index, runs>>
    <3>1. ~Complete \/ UNCHANGED index
      BY <1>15 DEF Interrupt
    <3>2. QED
      BY <1>15, <3>1, StopEffects
  <2>2. IndexInv'
    BY <1>1, <1>6, <2>1 DEF IndexInv, Doing
  <2>3. QED
    BY <1>5, <1>9, <2>1, <2>2
<1>16. CASE WriteEnvironment
  <2>1. /\ job[r].at = "environment" /\ job'[r].at = "mark" /\ environment' = job[r].run
        /\ job'[r].run = job[r].run /\ UNCHANGED <<index, files, runs>>
    BY <1>1, <1>16, AnnounceEffects DEF Same
  <2>2. IndexInv'
    BY <1>1, <1>6, <2>1 DEF IndexInv, Doing
  <2>3. index.run <= environment'
    BY <1>3, <1>5, <1>6, <2>1
  <2>4. QED
    BY <1>9, <2>1, <2>2, <2>3
<1>17. CASE MarkRunning
  <2>1. /\ job[r].at = "mark" /\ job'[r].at = "clean" /\ job'[r].next = job[r].next
        /\ index' = [run |-> job[r].run, state |-> "running", recorded |-> 0]
        /\ job'[r].run = job[r].run /\ UNCHANGED <<environment, files, runs>>
    BY <1>1, <1>17, AnnounceEffects DEF Same
  <2>2. job[r].next = 1
    BY <2>1 DEF PlaceInv, PlaceOf
  <2>3. IndexInv'
    BY <1>1, <1>6, <2>1, <2>2 DEF IndexInv, Doing, Marked
  <2>4. index'.run = job[r].run /\ index'.state = "running" /\ index'.recorded = 0
    BY <2>1
  <2>5. EvidenceIsAnnounced'
    <3>1. \A k \in 1..Len(MainCaptures) : \A s \in Kinds :
            files'[MainCaptures[k]][s].run <= index'.run
      BY <1>3, <1>5, <1>6, <2>1, <2>4
    <3>2. QED
      BY <1>3, <1>6, <1>7, <2>1, <2>4, <3>1
  <2>6. IndexIsBacked'
    BY <1>8, <2>4
  <2>7. QED
    BY <2>3, <2>5, <2>6
<1>18. CASE Checkpoint
  <2>1. /\ job[r].at = "checkpoint" /\ UNCHANGED <<files, environment, runs>>
        /\ index' = [index EXCEPT !.recorded = job[r].next] /\ job'[r].run = job[r].run
        /\ IF job[r].next < Len(MainCaptures)
           THEN job'[r].at = "clean" /\ job'[r].next = job[r].next + 1
           ELSE job'[r].at = "complete" /\ job'[r].next = job[r].next
    BY <1>1, <1>18, CheckpointEffects
  <2>2. index = [run |-> job[r].run, state |-> "running", recorded |-> job[r].next - 1]
    BY <1>6, <2>1
  <2>3. index' = [run |-> job[r].run, state |-> "running", recorded |-> job[r].next]
    BY <2>1, <2>2
  <2>4. IndexInv'
    <3>1. /\ job'[r].at = "clean" => job'[r].next - 1 = job[r].next
          /\ job'[r].at = "complete" => Len(MainCaptures) = job[r].next
          /\ job'[r].at \in {"clean", "complete"}
      BY <1>3, <2>1, MainPlaces
    <3>2. QED
      BY <1>1, <1>6, <2>1, <2>3, <3>1 DEF IndexInv, Doing, Marked
  <2>5. \A s \in Kinds : files[c][s].run = job[r].run
    <3>1. \A l \in 1..4 : files[c][Whole(l)] = Fresh(r)
      BY <1>2, <2>1 DEF FileInv, Doing, OnDisk
    <3>2. Fresh(r).run = job[r].run
      BY DEF Fresh
    <3>3. QED
      BY <3>1, <3>2, FourFiles
  <2>6. IndexIsBacked'
    <3>1. ASSUME NEW k \in 1..job[r].next, NEW s \in Kinds
          PROVE  files[MainCaptures[k]][s].run = job[r].run
      <4>1. CASE k = job[r].next
        BY <1>3, <2>5, <4>1
      <4>2. CASE k # job[r].next
        <5>1. k \in 1..job[r].next - 1
          BY <1>3, <4>2
        <5>2. QED
          BY <1>4, <2>2, <5>1
      <4>3. QED
        BY <4>1, <4>2
    <3>2. /\ index'.recorded = job[r].next /\ index'.run = job[r].run
          /\ index'.state = "running"
      BY <2>3
    <3>3. QED
      BY <1>8, <2>1, <3>1, <3>2
  <2>7. EvidenceIsAnnounced'
    <3>1. index'.run = index.run
      BY <2>2, <2>3
    <3>2. QED
      BY <1>5, <1>7, <2>1, <3>1
  <2>8. QED
    BY <2>4, <2>6, <2>7
<1>19. CASE Complete
  <2>1. /\ job[r].at = "complete" /\ job'[r].at = "idle"
        /\ index' = [index EXCEPT !.state = "complete"]
        /\ UNCHANGED <<files, environment, runs>>
    BY <1>1, <1>19, StopEffects
  <2>2. index' = [run |-> job[r].run, state |-> "complete", recorded |-> Len(MainCaptures)]
        /\ index.run = job[r].run /\ index.recorded = Len(MainCaptures)
    BY <1>6, <2>1
  <2>3. /\ index'.run = index.run /\ index'.recorded = index.recorded
        /\ index'.recorded = Len(MainCaptures)
    BY <2>2
  <2>4. IndexInv'
    BY <1>1, <1>6, <2>1 DEF IndexInv, Doing
  <2>5. IndexIsBacked' /\ EvidenceIsAnnounced'
    BY <1>4, <1>5, <1>7, <1>8, <2>1, <2>3
  <2>6. QED
    BY <2>4, <2>5
<1>20. QED
  BY <1>1, <1>10, <1>12, <1>13, <1>14, <1>15, <1>16, <1>17, <1>18, <1>19 DEF RunnerStep

\* Every step keeps the promises.
LEMMA IndexNext ==
  ASSUME Types, PlaceInv, FileInv, IndexInv, IndexIsBacked, EvidenceIsAnnounced, [Next]_vars
  PROVE  IndexInv' /\ IndexIsBacked' /\ EvidenceIsAnnounced'
<1>1. CASE AnalysisStep \/ UNCHANGED vars
  <2>1. UNCHANGED <<files, environment, index, runs, job>>
    BY <1>1, AnalysisEffects DEF vars
  <2>2. runs \in Nat
    BY RunAssumption DEF Types
  <2>3. runs' \in Nat /\ runs' >= runs
    BY <2>1, <2>2
  <2>4. QED
    BY <2>1, <2>3, IndexKept
<1>2. CASE RunnerStep("main")
  BY <1>2, IndexOwn
<1>3. CASE RunnerStep("i386")
  BY <1>3, IndexOther
<1>4. QED
  BY <1>1, <1>2, <1>3, StepSplit DEF Runners

-----------------------------------------------------------------------------
(* What is published is healthy and of one run. *)

\* What is accepted of a capture whose result has been accepted is good: its files are
\* of one execution, and a result that came too late is refused.
LEMMA ReadIsGood ==
  ASSUME Types, CapturesWhole, NEW reads \in GoodReads, analysis.next \in 1..Len(reads),
         Accepts(NextFile(reads), Next2(reads)),
         \A k \in 1..analysis.next - 1 : Accepts(files[reads[k][1]][reads[k][2]], reads[k][2])
  PROVE  Seen(reads).outcome = "ok"
<1>1. PICK n \in 1..Len(reads) : n = analysis.next
  OBVIOUS
<1>2. reads \in Seq(Reads) /\ DOMAIN reads = 1..Len(reads) /\ Len(reads) \in Nat
  BY DEF GoodReads
<1>3. PICK c \in Captures, s \in Kinds : c = Next1(reads) /\ s = Next2(reads)
  BY <1>1, <1>2 DEF Reads, Next1, Next2
<1>4. reads[n][1] = c /\ reads[n][2] = s
  BY <1>1, <1>3 DEF Next1, Next2
<1>5. PICK j \in 1..n : reads[j] = <<c, ".result.json">>
  BY <1>2, <1>4 DEF GoodReads, ResultFirst
<1>6. Accepts(files[c][".result.json"], ".result.json")
  <2>1. CASE j = n
    BY <1>1, <1>3, <1>4, <1>5, <2>1 DEF NextFile
  <2>2. CASE j # n
    <3>1. j \in 1..analysis.next - 1
      BY <1>1, <1>2, <2>2
    <3>2. reads[j][1] = c /\ reads[j][2] = ".result.json"
      BY <1>5
    <3>3. QED
      BY <3>1, <3>2
  <2>3. QED
    BY <2>1, <2>2
<1>7. files[c][".result.json"] # NoFile /\ files[c][".result.json"].outcome = "ok"
  <2>1. files[c][".result.json"] \in File
    BY FourFiles DEF Types
  <2>2. QED
    BY <1>6, <2>1 DEF Accepts, File, Outcomes
<1>8. files[c][s] # NoFile
  BY <1>3 DEF Accepts, NextFile
<1>9. files[c][s] = files[c][".result.json"]
  BY <1>3, <1>7, <1>8, FourFiles DEF CapturesWhole, Kinds
<1>10. QED
  BY <1>3, <1>7, <1>9 DEF Seen, NextFile

\* While the index is complete a main capture is of the run it names.
LEMMA ReadIsOfRun ==
  ASSUME Types, IndexIsBacked, index.state = "complete",
         NEW c \in ToSet(MainCaptures), NEW s \in Kinds
  PROVE  files[c][s].run = index.run
<1>1. PICK k \in 1..Len(MainCaptures) : c = MainCaptures[k]
  BY MainPlaces
<1>2. QED
  BY <1>1 DEF IndexIsBacked, Kinds

\* A step of a runner: nothing is being read, and it can only begin when nothing is.
LEMMA ReadNextRunner ==
  ASSUME Types, PlaceInv, ReadInv, ~Overlap, NEW r \in Runners, RunnerStep(r)
  PROVE  ReadInv'
<1>1. UNCHANGED <<analysis, json, md>>
  BY RunnerEffects
<1>2. analysis.at = "idle"
  <2>1. CASE Begin(r)
    BY <2>1 DEF Begin, Quiet
  <2>2. CASE ~Begin(r)
    <3>1. ~Doing(r, "idle")
      BY <2>2 DEF RunnerStep, Clean, Execute, Write, Interrupt, WriteEnvironment,
         MarkRunning, Checkpoint, Complete, WriteI386Index, Doing
    <3>2. QED
      BY <3>1 DEF ReadInv
  <2>3. QED
    BY <2>1, <2>2
<1>3. QED
  BY <1>1, <1>2 DEF ReadInv, AllGood, OneRun

\* A step of the analysis that accepts a file, or that ends it.
LEMMA ReadNextFrom ==
  ASSUME Types, CapturesWhole, IndexIsBacked, ReadInv, ReadPlace, analysis.at # "idle",
         UNCHANGED <<files, index, job, published>>,
         \/ analysis.at = "builds" /\ ReadFrom(BuildReads, "i386builds")
         \/ analysis.at = "cases" /\ ReadFrom(CaseReads, "json")
  PROVE  ReadInv'
<1>1. PICK reads, then :
        /\ reads \in Seq(Reads) /\ reads # <<>> /\ then \in {"i386builds", "json"}
        /\ analysis.next <= Len(reads) /\ ReadFrom(reads, then)
        /\ \/ analysis.at = "builds" /\ reads = BuildReads /\ then = "i386builds"
           \/ analysis.at = "cases" /\ reads = CaseReads /\ then = "json"
  BY ReadsTyped DEF GoodReads, ReadPlace
<1>2. Len(reads) \in Nat /\ analysis.next \in 1..Len(reads) /\ analysis.next \in Nat
  BY <1>1 DEF Types, Analysis
<1>3. /\ AllGood(analysis) /\ OneRun(analysis)
      /\ AllGood(json) /\ OneRun(json) /\ AllGood(md) /\ OneRun(md)
      /\ \A r \in Runners : Doing(r, "idle")
      /\ index.state = "complete" /\ analysis.main = index.run
  BY DEF ReadInv
<1>4. UNCHANGED <<json, md>>
  BY DEF published
<1>5. CASE analysis' = NotAnalysing
  BY <1>3, <1>4, <1>5 DEF NotAnalysing, ReadInv, AllGood, OneRun
<1>6. CASE /\ Next1(reads) \in Captures /\ Next2(reads) \in Kinds
           /\ NextFile(reads) \in File /\ Accepts(NextFile(reads), Next2(reads))
           /\ analysis'.main = analysis.main
           /\ analysis'.seen = analysis.seen \cup {Seen(reads)}
           /\ IF analysis.next = Len(reads)
              THEN analysis'.at = then /\ analysis'.next = 1
              ELSE analysis'.at = analysis.at /\ analysis'.next = analysis.next + 1
  <2>1. Seen(reads).outcome = "ok"
    <3>1. CASE analysis.at = "builds"
      <4>1. Next2(reads) = ".result.json"
        BY <1>1, <1>2, <3>1, ReadsTyped DEF Next2
      <4>2. NextFile(reads).outcome = "ok"
        <5>1. PICK file \in File : file = NextFile(reads)
          BY <1>6
        <5>2. file # NoFile /\ file.outcome # "bad" /\ file.outcome # "late"
          BY <1>6, <4>1, <5>1 DEF Accepts
        <5>3. QED
          BY <5>1, <5>2 DEF File, Outcomes
      <4>3. QED
        BY <4>2 DEF Seen
    <3>2. CASE analysis.at = "cases"
      <4>1. reads \in GoodReads /\ reads = CaseReads
        BY <1>1, <3>2, ReadsTyped
      <4>2. \A k \in 1..analysis.next - 1 :
              Accepts(files[reads[k][1]][reads[k][2]], reads[k][2])
        BY <3>2, <4>1 DEF ReadInv
      <4>3. QED
        BY <1>2, <1>6, <4>1, <4>2, ReadIsGood
    <3>3. QED
      BY <1>1, <3>1, <3>2
  <2>2. Seen(reads).capture \in ToSet(MainCaptures) => Seen(reads).run = analysis.main
    <3>1. Seen(reads).capture = Next1(reads)
          /\ Seen(reads).run = files[Next1(reads)][Next2(reads)].run
      BY DEF Seen, NextFile
    <3>2. QED
      BY <1>3, <1>6, <3>1, ReadIsOfRun
  <2>3. AllGood(analysis)' /\ OneRun(analysis)'
    BY <1>3, <1>6, <2>1, <2>2 DEF AllGood, OneRun
  <2>4. analysis'.at = "cases" => \A k \in 1..analysis'.next - 1 :
          Accepts(files[CaseReads[k][1]][CaseReads[k][2]], CaseReads[k][2])
    <3>1. SUFFICES ASSUME analysis'.at = "cases", NEW k \in 1..analysis'.next - 1
                   PROVE  Accepts(files[CaseReads[k][1]][CaseReads[k][2]], CaseReads[k][2])
      OBVIOUS
    <3>2. reads = CaseReads /\ analysis.at = "cases" /\ analysis'.next = analysis.next + 1
      BY <1>1, <1>6, <3>1
    <3>3. k = analysis.next \/ k \in 1..analysis.next - 1
      BY <1>2, <3>1, <3>2
    <3>4. CASE k = analysis.next
      BY <1>6, <3>2, <3>4 DEF NextFile, Next1, Next2
    <3>5. CASE k \in 1..analysis.next - 1
      BY <3>2, <3>5 DEF ReadInv
    <3>6. QED
      BY <3>3, <3>4, <3>5
  <2>5. (\A r \in Runners : Doing(r, "idle")') /\ index'.state = "complete"
        /\ analysis'.main = index'.run
    BY <1>3, <1>6 DEF Doing
  <2>6. AllGood(json)' /\ OneRun(json)' /\ AllGood(md)' /\ OneRun(md)'
    BY <1>3, <1>4 DEF AllGood, OneRun
  <2>7. QED
    BY <2>3, <2>4, <2>5, <2>6 DEF ReadInv
<1>7. QED
  <2>1. then \in Analyses
    BY <1>1 DEF Analyses
  <2>2. QED
    BY <1>1, <1>2, <1>5, <1>6, <2>1, ReadEffects

\* Every step keeps what is known of the reads, as long as no tool is started while
\* another is at work.
LEMMA ReadNext ==
  ASSUME Types, PlaceInv, ReadPlace, CapturesWhole, IndexIsBacked, ReadInv, ~Overlap,
         [Next]_vars
  PROVE  ReadInv'
<1>1. ASSUME NEW r \in Runners, RunnerStep(r) PROVE ReadInv'
  BY <1>1, ReadNextRunner
<1>2. CASE UNCHANGED vars
  BY <1>2 DEF vars, ReadInv, AllGood, OneRun, Doing
<1>3. CASE AnalysisStep
  <2>1. UNCHANGED <<files, environment, index, i386_index, runs, job>>
    BY <1>3, AnalysisEffects
  <2>2. /\ AllGood(analysis) /\ OneRun(analysis)
        /\ AllGood(json) /\ OneRun(json) /\ AllGood(md) /\ OneRun(md)
        /\ analysis.at # "idle" => /\ \A r \in Runners : Doing(r, "idle")
                                   /\ index.state = "complete" /\ analysis.main = index.run
    BY DEF ReadInv
  <2>3. analysis \in Analysis
    BY DEF Types
  <2>4. CASE Abort /\ UNCHANGED published
    BY <2>2, <2>4 DEF Abort, NotAnalysing, published, ReadInv, AllGood, OneRun
  <2>5. CASE StartAnalysis
    <3>1. analysis' = [NotAnalysing EXCEPT !.at = "i386index", !.main = index.run]
      BY <2>5 DEF StartAnalysis
    <3>2. analysis'.at = "i386index" /\ analysis'.main = index.run /\ analysis'.seen = {}
      BY <3>1 DEF NotAnalysing
    <3>3. (\A r \in Runners : Doing(r, "idle")) /\ index.state = "complete"
          /\ UNCHANGED <<json, md>>
      BY <2>5 DEF StartAnalysis, Quiet, published
    <3>4. QED
      BY <2>1, <2>2, <3>2, <3>3 DEF ReadInv, AllGood, OneRun, Doing
  <2>6. CASE (ReadI386Index /\ ~Abort) \/ (VerifyI386Builds /\ ~Abort) \/ PublishJson
    <3>1. /\ analysis'.main = analysis.main /\ analysis'.seen = analysis.seen
          /\ analysis'.at \in {"builds", "cases", "md"} /\ analysis'.next = analysis.next
          /\ analysis.at \in {"i386index", "i386builds", "json"}
      <4>1. CASE ReadI386Index /\ ~Abort
        <5>1. /\ analysis' = [analysis EXCEPT !.at = "builds", !.i386 = i386_index.run]
              /\ analysis.at = "i386index"
          BY <4>1 DEF ReadI386Index
        <5>2. QED
          BY <2>3, <5>1 DEF Analysis
      <4>2. CASE VerifyI386Builds /\ ~Abort
        <5>1. /\ analysis' = [analysis EXCEPT !.at = "cases"]
              /\ analysis.at = "i386builds"
          BY <4>2 DEF VerifyI386Builds
        <5>2. QED
          BY <2>3, <5>1 DEF Analysis
      <4>3. CASE PublishJson
        <5>1. analysis' = [analysis EXCEPT !.at = "md"] /\ analysis.at = "json"
          BY <4>3 DEF PublishJson
        <5>2. QED
          BY <2>3, <5>1 DEF Analysis
      <4>4. QED
        BY <2>6, <4>1, <4>2, <4>3
    <3>2. analysis.next = 1
      BY <3>1 DEF ReadPlace
    <3>3. AllGood(analysis)' /\ OneRun(analysis)'
      BY <2>2, <3>1 DEF AllGood, OneRun
    <3>4. AllGood(json)' /\ OneRun(json)' /\ AllGood(md)' /\ OneRun(md)'
      <4>1. UNCHANGED md /\ (json' = json \/ json' = Results)
        BY <2>6 DEF ReadI386Index, VerifyI386Builds, PublishJson, published
      <4>2. Results.main = analysis.main /\ Results.seen = analysis.seen
        BY DEF Results
      <4>3. QED
        BY <2>2, <4>1, <4>2 DEF AllGood, OneRun
    <3>5. (\A r \in Runners : Doing(r, "idle")') /\ index'.state = "complete"
          /\ analysis'.main = index'.run
      BY <2>1, <2>2, <3>1 DEF Doing
    <3>6. \A k \in 1..analysis'.next - 1 : FALSE
      BY <3>1, <3>2
    <3>7. QED
      BY <3>3, <3>4, <3>5, <3>6 DEF ReadInv
  <2>7. CASE VerifyBuilds \/ AnalyzeCase
    <3>1. UNCHANGED published
          /\ \/ analysis.at = "builds" /\ ReadFrom(BuildReads, "i386builds")
             \/ analysis.at = "cases" /\ ReadFrom(CaseReads, "json")
      BY <2>7 DEF VerifyBuilds, AnalyzeCase
    <3>2. QED
      BY <2>1, <3>1, ReadNextFrom
  <2>8. CASE PublishMd
    <3>1. analysis' = NotAnalysing /\ md' = Results /\ UNCHANGED json
      BY <2>8 DEF PublishMd
    <3>2. /\ Results.main = analysis.main /\ Results.seen = analysis.seen
          /\ NotAnalysing.at = "idle" /\ NotAnalysing.seen = {}
      BY DEF Results, NotAnalysing
    <3>3. QED
      BY <2>2, <3>1, <3>2 DEF ReadInv, AllGood, OneRun
  <2>9. QED
    BY <1>3, <2>4, <2>5, <2>6, <2>7, <2>8
       DEF AnalysisStep, ReadI386Index, VerifyI386Builds, InterruptAnalysis
<1>4. QED
  BY <1>1, <1>2, <1>3, StepSplit

-----------------------------------------------------------------------------
(* Theorems. *)

\* Nothing has been run, nothing is on disk.
LEMMA InitHolds == ASSUME Init PROVE Inv
<1>1. NoFile \in File /\ NoFile.run = 0 /\ 0 \in 0..MaxRuns /\ MaxRuns \in Nat
  BY RunAssumption DEF File, NoFile
<1>2. /\ Len(MainCaptures) \in Nat
      /\ \A r \in Runners : Len(CapturesOf(r)) \in Nat /\ 1 <= Len(CapturesOf(r))
  BY CaptureSequences
<1>3. Idle \in Job /\ Idle.at = "idle" /\ Idle.next = 1 /\ Idle.n = 0
  BY <1>1 DEF Idle, Job, AllPlaces, Outcomes
<1>4. NotAnalysing \in Analysis /\ NotAnalysing.at = "idle" /\ NotAnalysing.next = 1
      /\ NotAnalysing.seen = {}
  BY <1>1 DEF NotAnalysing, Analysis, Analyses
<1>5. Unpublished \in Published /\ Unpublished.seen = {}
  BY <1>1 DEF Unpublished, Published
<1>6. NoI386Index \in [run : 0..MaxRuns, builds : Seq(Outcomes)]
  BY <1>1 DEF NoI386Index
<1>7. /\ NoIndex \in [run : 0..MaxRuns, state : {"none", "running", "complete"},
                      recorded : 0..Len(MainCaptures)]
      /\ NoIndex.run = 0 /\ NoIndex.recorded = 0 /\ NoIndex.state = "none"
  BY <1>1, <1>2 DEF NoIndex
<1>8. /\ \A r \in Runners : job[r] = Idle
      /\ \A c \in Captures : \A s \in Kinds : files[c][s] = NoFile
  BY DEF Init, Kinds
<1>9. Types
  BY <1>1, <1>3, <1>4, <1>5, <1>6, <1>7 DEF Init, Types, Kinds
<1>10. PlaceInv /\ ReadPlace
  BY <1>2, <1>3, <1>4, <1>8 DEF Init, PlaceInv, PlaceOf, Places, ReadPlace
<1>11. FileInv
  BY <1>3, <1>8 DEF FileInv, Doing
<1>12. IndexInv
  BY <1>1, <1>3, <1>8 DEF Init, IndexInv, Doing, Runners
<1>13. CapturesWhole
  BY <1>8 DEF CapturesWhole, Kinds
<1>14. IndexIsBacked
  BY <1>7 DEF Init, IndexIsBacked
<1>15. EvidenceIsAnnounced
  BY <1>1, <1>7, <1>8, MainPlaces DEF Init, EvidenceIsAnnounced, Kinds
<1>16. ReadInv
  BY <1>4, <1>5 DEF Init, ReadInv, AllGood, OneRun
<1>17. QED
  BY <1>9, <1>10, <1>11, <1>12, <1>13, <1>14, <1>15, <1>16 DEF Inv

\* The invariant is inductive.
LEMMA InvNext == ASSUME Inv, [Next]_vars PROVE Inv'
<1>1. Types' /\ PlaceInv' /\ ReadPlace'
  BY TypesNext DEF Inv
<1>2. FileInv' /\ CapturesWhole'
  BY FilesNext DEF Inv
<1>3. IndexInv' /\ IndexIsBacked' /\ EvidenceIsAnnounced'
  BY IndexNext DEF Inv
<1>4. ~Overlap => ReadInv'
  BY ReadNext DEF Inv
<1>5. QED
  BY <1>1, <1>2, <1>3, <1>4 DEF Inv

\* Whatever was started, finished or interrupted before, a capture on disk is of one
\* execution: run_case removes all four files before the command is run, and writes
\* each of them whole (clean_capture_prefix and atomic_write_bytes, run_baseline.py).
THEOREM WholeCorrect == Spec => []CapturesWhole
<1>1. Spec => []Inv
  BY InitHolds, InvNext, PTL DEF Spec
<1>2. Inv => CapturesWhole
  BY DEF Inv
<1>3. QED
  BY <1>1, <1>2, PTL

\* Every capture that run_index.json records is on disk and of the run it names, for
\* any number of captures and of runs interrupted anywhere.
THEOREM BackedCorrect == Spec => []IndexIsBacked
<1>1. Spec => []Inv
  BY InitHolds, InvNext, PTL DEF Spec
<1>2. Inv => IndexIsBacked
  BY DEF Inv
<1>3. QED
  BY <1>1, <1>2, PTL

\* Evidence never goes before the environment and the index that announce it.
THEOREM AnnouncedCorrect == Spec => []EvidenceIsAnnounced
<1>1. Spec => []Inv
  BY InitHolds, InvNext, PTL DEF Spec
<1>2. Inv => EvidenceIsAnnounced
  BY DEF Inv
<1>3. QED
  BY <1>1, <1>2, PTL

\* The places of runners and analysis are those of their captures and files.
THEOREM AuditTypeCorrect == Spec => []TypeOK
<1>1. Spec => []Inv
  BY InitHolds, InvNext, PTL DEF Spec
<1>2. ASSUME Inv PROVE TypeOK
  <2>1. Types /\ PlaceInv
    BY <1>2 DEF Inv
  <2>2. \A r \in Runners : job[r].next \in 1..Len(CapturesOf(r)) /\ job[r].n \in 0..4
    BY <2>1, AtCapture
  <2>3. analysis.next \in Nat \ {0}
    BY <2>1 DEF Types, Analysis
  <2>4. QED
    BY <2>1, <2>2, <2>3 DEF Types, TypeOK, Kinds
<1>3. QED
  BY <1>1, <1>2, PTL

\* If tools run one after the other, nothing that timed out or failed is published: of
\* every case the results are read before what the engines printed, and both are of one
\* execution (analyze_case and assert_healthy, analyze_results.py).
THEOREM HealthyCorrect == ASSUME Overlap = FALSE PROVE Spec => []PublishedIsHealthy
<1>1. Spec => []Inv
  BY InitHolds, InvNext, PTL DEF Spec
<1>2. Inv => PublishedIsHealthy
  BY DEF Inv, ReadInv, AllGood, PublishedIsHealthy
<1>3. QED
  BY <1>1, <1>2, PTL

\* If tools run one after the other, what is published of the main run is of the one
\* run that was complete when the analysis began, though it compares no two run_ids.
THEOREM OneRunCorrect == ASSUME Overlap = FALSE PROVE Spec => []PublishedIsOneRun
<1>1. Spec => []Inv
  BY InitHolds, InvNext, PTL DEF Spec
<1>2. Inv => PublishedIsOneRun
  BY DEF Inv, ReadInv, OneRun, PublishedIsOneRun
<1>3. QED
  BY <1>1, <1>2, PTL
===============================================================================

----------------------------- MODULE ReviewInput ------------------------------
(***************************************************************************)
(* What one review is made of: the diff of a pull request, the chunks it   *)
(* changes and their neighbours, the findings of the model, their          *)
(* citations, the risk score, and where each finding ends up on GitHub.    *)
(* When each step happens, and what a failure does, is in PrReviews.       *)
(***************************************************************************)
EXTENDS Integers, Sequences, FiniteSets, FiniteSetsExt, SequencesExt

CONSTANTS
  Files,
  Hunks,       (* the hunks a patch may have: sequences of "+", " ", "-", "\" *)
  MaxHunks,
  Lines,       (* line numbers of the files and of what the model writes   *)
  Chunks,      (* of the index                                             *)
  ChunkAt,     (* the file and the lines of each                           *)
  Calls,       (* the relationships: pairs of chunks                       *)
  Tests,       (* the chunks in a file of tests                            *)
  NamedAfter,  (* pairs of chunks: the name of the first holds the second's*)
  Touching,    (* the files whose path raises each factor of the risk      *)
  LargeChange  (* 500 lines                                                *)

ReviewAssumption ==
  /\ Hunks \subseteq Seq({"+", " ", "-", "\\"})
  /\ ChunkAt \in [Chunks -> [file : Files, first : Nat, last : Nat]]
  /\ Calls \cup NamedAfter \subseteq Chunks \X Chunks /\ Tests \subseteq Chunks
  /\ Touching \in [{"AUTH_PATH", "PAYMENT_PATH", "MIGRATION", "DEPENDENCY_CHANGE"} -> SUBSET Files]
  /\ {MaxHunks, LargeChange} \cup Lines \subseteq Nat

VARIABLES
  patch,      (* the patch GitHub sends for each file, or NoPatch          *)
  gone,       (* the chunks an indexing job deleted since                  *)
  changed, related,      (* the chunks the review starts from, and calls   *)
  citable,    (* the chunks a finding may cite                             *)
  findings, comments, summary,
  step

vars == <<patch, gone, changed, related, citable, findings, comments, summary, step>>

-----------------------------------------------------------------------------
(* A patch is the lines GitHub sends, each a header or a line of a hunk. A *)
(* header counts the lines of the new file in its hunk; hunks do not       *)
(* overlap; a removed or binary file has no patch.                         *)
NoPatch == <<>>

Kept(line) == line.kind \in {"+", " "}
Line(kind) == [kind |-> kind, start |-> 0, count |-> 0]

KeptIn(hunk) == Cardinality({i \in DOMAIN hunk : hunk[i] \in {"+", " "}})

WithHeader(start, hunk) ==
  <<[kind |-> "@@", start |-> start, count |-> KeptIn(hunk)]>> \o [i \in DOMAIN hunk |-> Line(hunk[i])]

(* The empty string that splitting at a last newline leaves.               *)
EmptyLine == Line("")

(* One hunk, or two with lines between them that the patch leaves out.     *)
Patches ==
  LET one == {WithHeader(s, h) : s \in {1, 2}, h \in Hunks}
      two == {WithHeader(1, h) \o WithHeader(1 + KeptIn(h) + 1, k) : h, k \in Hunks}
  IN  one \cup (IF MaxHunks < 2 THEN {} ELSE two \cup {p \o <<EmptyLine>> : p \in two})

Init ==
  /\ patch \in [Files -> Patches \cup {NoPatch}]
  /\ gone = {} /\ changed = {} /\ related = {} /\ citable = {}
  /\ findings = {} /\ comments = {} /\ summary = {} /\ step = "diff"

(* parseUnifiedDiff: one pass over the lines; line i of the patch, counted *)
(* from zero, has position i.                                              *)
Counted(line) == line.kind \notin {"@@", "-", "\\", ""}

NewLineBefore(p, i) ==
  LET newLine[j \in 0 .. Len(p)] ==
        IF j = 0 THEN 0
        ELSE IF p[j].kind = "@@" THEN p[j].start
        ELSE IF Counted(p[j]) THEN newLine[j - 1] + 1 ELSE newLine[j - 1]
  IN  newLine[i]

Ranges(p) ==
  {p[i].start .. p[i].start + p[i].count - 1 : i \in {j \in DOMAIN p : p[j].kind = "@@" /\ p[j].count > 0}}

Positions(p) ==
  {[line |-> NewLineBefore(p, i - 1), position |-> i - 1] : i \in {j \in DOMAIN p : Counted(p[j])}}

PositionOf(p, line) == {q.position : q \in {r \in Positions(p) : r.line = line}}

-----------------------------------------------------------------------------
(* mapChangedLinesToChunks: the chunks of the file that a range overlaps.  *)
Overlaps(c, range) ==
  \E n \in range : ChunkAt[c].first <= n /\ n <= ChunkAt[c].last

ChangedChunks ==
  {c \in Chunks \ gone : \E r \in Ranges(patch[ChunkAt[c].file]) : Overlaps(c, r)}

(* getPrDiff and the lookup of the chunks.                                 *)
MapChanges ==
  /\ step = "diff"
  /\ changed' = ChangedChunks
  /\ step' = "mapped"
  /\ UNCHANGED <<patch, gone, related, citable, findings, comments, summary>>

(* getOneHopDependencies: callers and callees that did not change.         *)
OneHop(cs) ==
  ({e[1] : e \in {d \in Calls : d[2] \in cs}} \cup {e[2] : e \in {d \in Calls : d[1] \in cs}}) \ cs

GetDependencies ==
  /\ step = "mapped"
  /\ related' = OneHop(changed \ gone) \ (gone \cup changed)
  /\ step' = "related"
  /\ UNCHANGED <<patch, gone, changed, citable, findings, comments, summary>>

(* The search for the names of what changed adds any chunks, if anything   *)
(* did; the rows of the others are read again.                             *)
LoadContext ==
  /\ step = "related"
  /\ \E retrieved \in IF changed = {} THEN {{}} ELSE SUBSET (Chunks \ gone) :
       citable' = retrieved \cup ((changed \cup related) \ gone)
  /\ step' = "context"
  /\ UNCHANGED <<patch, gone, changed, related, findings, comments, summary>>

(* An indexing job replaces the rows of a file between two of the reads.   *)
Reindex(f) ==
  /\ step \in {"mapped", "related"} /\ gone = {}
  /\ gone' = {c \in Chunks : ChunkAt[c].file = f} /\ gone' # {}
  /\ UNCHANGED <<patch, changed, related, citable, findings, comments, summary, step>>

(* A finding names a file and a line, and a citation that stands when it is*)
(* exactly a chunk the model was shown: the model may write anything.      *)
NoCitation == [file |-> "none", first |-> 0, last |-> 0]

Validated(citation) ==
  IF \E c \in citable : ChunkAt[c] = citation THEN citation ELSE NoCitation

RunReview ==
  /\ step = "context"
  /\ \E f \in Files, n \in Lines, cited \in {ChunkAt[c] : c \in Chunks} \cup {NoCitation} :
       findings' = {[file |-> f, line |-> n, citation |-> Validated(cited)]}
  /\ step' = "reviewed"
  /\ UNCHANGED <<patch, gone, changed, related, citable, comments, summary>>

-----------------------------------------------------------------------------
(* calculateRiskScore: points for each factor. A name is covered when one  *)
(* in a file of tests holds it; a removed file raises none.                *)
HasTestCoverage(c) == \E t \in Tests \ gone : t = c \/ <<t, c>> \in NamedAfter

LinesChanged == MapThenSumSet(LAMBDA f : MapThenSumSet(Cardinality, Ranges(patch[f])), Files)

Factors ==
  LET raised ==
        {code \in DOMAIN Touching : \E f \in Touching[code] : Ranges(patch[f]) # {}}
        \cup {code \in {"LARGE_CHANGE"} : LinesChanged > LargeChange}
        \cup {code \in {"NO_TEST_COVERAGE"} : \E c \in changed : ~HasTestCoverage(c)}
      points(code) == CASE code \in {"AUTH_PATH", "PAYMENT_PATH"} -> 20
                        [] code = "MIGRATION" -> 15
                        [] OTHER -> 10
  IN  {[code |-> code, points |-> points(code)] : code \in raised}

RiskScore == Min({100, MapThenSumSet(LAMBDA f : f.points, Factors)})
RiskLevel == IF RiskScore <= 30 THEN "LOW" ELSE IF RiskScore <= 60 THEN "MEDIUM" ELSE "HIGH"

(* postReviewToGitHub: a finding whose line is in the range it cites of the*)
(* file it names, and in the diff, is a comment there.                     *)
Anchor_AnyFile(f) ==
  IF f.citation # NoCitation /\ f.line \in f.citation.first .. f.citation.last
  THEN PositionOf(patch[f.citation.file], f.line) ELSE {}

Anchor(f) ==
  IF /\ f.citation # NoCitation /\ f.file = f.citation.file
     /\ f.line \in f.citation.first .. f.citation.last
  THEN PositionOf(patch[f.file], f.line) ELSE {}

(* buildSummaryBody: the risk, its factors, and the findings left over.    *)
SummaryBody(rest) == [level |-> RiskLevel, score |-> RiskScore, factors |-> Factors, findings |-> rest]

PostReview ==
  /\ step = "reviewed"
  /\ comments' = UNION {{[path |-> f.citation.file, position |-> Max(Anchor(f)), finding |-> f]} :
                          f \in {g \in findings : Anchor(g) # {}}}
  /\ summary' = {SummaryBody({f \in findings : Anchor(f) = {}})}
  /\ step' = "posted"
  /\ UNCHANGED <<patch, gone, changed, related, citable, findings>>

Next ==
  \/ MapChanges \/ GetDependencies \/ LoadContext \/ RunReview \/ PostReview
  \/ \E f \in Files : Reindex(f)

Spec == Init /\ [][Next]_vars

-----------------------------------------------------------------------------
(* The line of the new file that position i of a patch shows: counted      *)
(* within its hunk from where the header says it starts.                   *)
ShownAt(p, i) ==
  LET header == Max({h \in 1 .. i : p[h].kind = "@@"})
  IN  p[header].start + Cardinality({j \in header + 1 .. i : Kept(p[j])})

(* A comment is where a reader finds what it is about: on the line its     *)
(* finding names, shown by the diff, in the file and within the lines its  *)
(* citation proves (github-diff.service.ts, github-writeback.service.ts).  *)
CommentsLand ==
  \A c \in comments :
    LET p == patch[c.path] IN
    /\ c.position + 1 \in DOMAIN p /\ Kept(p[c.position + 1])
    /\ ShownAt(p, c.position) = c.finding.line
    /\ c.finding.file = c.path
    /\ \E k \in Chunks : ChunkAt[k].file = c.path /\ c.finding.line \in ChunkAt[k].first .. ChunkAt[k].last

(* Nothing the model found is lost: it is a comment or in the summary.     *)
EveryFindingPosted ==
  step = "posted" =>
    {c.finding : c \in comments} \cup UNION {s.findings : s \in summary} = findings

(* The ranges of a patch are the lines of the new file it shows, so that a *)
(* chunk none of whose lines it shows does not count as changed.           *)
RangesAreShown ==
  \A f \in Files : UNION Ranges(patch[f]) = {q.line : q \in Positions(patch[f])}

FindingsArrive == CommentsLand /\ EveryFindingPosted /\ RangesAreShown
=============================================================================

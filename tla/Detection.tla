------------------------------ MODULE Detection ------------------------------
(***************************************************************************)
(* One text through PIIEngine._detect_all_detailed behind its cache: the    *)
(* windowed detector, if the preset has one, beside the other detectors,    *)
(* then the merge and the allow list over all they report.                  *)
(*                                                                         *)
(* What the other detectors report is an environment choice.  The windowed  *)
(* detector's spans may fall below its score threshold; refine_spans, which *)
(* cuts spans on .env lines, has nothing to do in the texts used here.      *)
(***************************************************************************)
EXTENDS EntityMerge, TokenWindows

CONSTANTS
    Reports,     \* bound: what the other detectors may report, as sets
    Windowed,    \* the windowed detector's name as a source
    LabelMapping \* label type -> entity type

ASSUME DetectionConstantsOK ==
    /\ Reports \subseteq SUBSET Entity
    /\ \A t \in DOMAIN LabelMapping : LabelMapping[t] \in Types
    /\ \A txt \in Texts : Len(txt) <= TextEnd

vars == <<mergeVars, windowVars>>

\* The preset has no windowed detector, or it has answered and its locals are gone.
WindowsOff ==
    /\ stage = "off"
    /\ wholeWords = FALSE /\ text = <<>> /\ offsets = <<>> /\ geometry = <<1, 0>>
    /\ stitched = <<>> /\ at = 0 /\ collecting = NoRun /\ spans = {} /\ tagged = {}

\* The merge is checked under every configuration for the other detectors' reports, so
\* the windowed detector runs under the defaults only.
Defaults == strategy = "union" /\ resolution = "highest_score" /\ rules = {}

Init == MergeInit /\ (WindowsOff \/ (WindowInit /\ Defaults))

\* OnnxPrivacyFilterDetector.detect: the spans over the threshold, under their types.
Answers ==
    LET Entities(sp) ==
            {e \in Entity : /\ e.type = LabelMapping[sp.type]
                            /\ e.start = sp.start /\ e.end = sp.end
                            /\ e.source = Windowed}
    IN  {R \in SUBSET UNION {Entities(sp) : sp \in spans} :
            \A e, f \in R : e.start = f.start /\ e.end = f.end /\ e.type = f.type => e = f}

OthersAnswer ==
    /\ stage = "off" /\ pc = "detecting"
    /\ \E R \in Reports : Gather(R)
    /\ UNCHANGED windowVars

WindowedAnswers ==
    /\ stage = "spans"
    /\ \E R \in Answers : Gather(R)
    /\ stage' = "off"
    /\ wholeWords' = FALSE /\ text' = <<>> /\ offsets' = <<>> /\ geometry' = <<1, 0>>
    /\ stitched' = <<>> /\ at' = 0 /\ collecting' = NoRun /\ spans' = {} /\ tagged' = {}

OneFails ==
    /\ stage \in {"off", "error"}
    /\ DetectorFails
    /\ UNCHANGED windowVars

Next ==
    \/ WindowNext /\ UNCHANGED mergeVars
    \/ OthersAnswer
    \/ WindowedAnswers
    \/ OneFails
    \/ Process /\ UNCHANGED windowVars

Spec == Init /\ [][Next]_vars

=============================================================================

---------------------------- MODULE StaticPrepare ----------------------------
(***************************************************************************)
(* Preparation of a locked pack graph's configuration: the entry document  *)
(* must be declared by the root pack, the profile is the one asked for or  *)
(* else the one that is deployed, and the first top-level node of the      *)
(* entry decides which of the two dialects evaluates it.                   *)
(*                                                                         *)
(* A request is [src, workspace, first, declared, captured, asked,         *)
(* deployed]: the sources as each dialect reads them, the first node of    *)
(* the entry, whether the manifest declares and the pack holds it, and the *)
(* profile asked for and the one deployed ("none" for no profile).         *)
(***************************************************************************)
EXTENDS Authoring

CONSTANTS Families,           \* sets of names of the requests considered
          Request(_, _),      \* the request of a family and a name
          RichIncludeDepth, RichProfileDepth, RichItems, RichValueDepth,
          RichTotalValues, RichSteps, RichLoop, RichTotalLoop, RichRecords

VARIABLES request, rich, route

Rich == INSTANCE RichConfig WITH
  MaxIncludeDepth <- RichIncludeDepth, MaxProfileDepth <- RichProfileDepth, MaxItems <- RichItems,
  MaxValueDepth <- RichValueDepth, MaxValues <- RichTotalValues, MaxSteps <- RichSteps, MaxLoop <- RichLoop,
  MaxTotalLoop <- RichTotalLoop, MaxRecords <- RichRecords

preparing == <<request, rich, route>>
allVars == <<vars, preparing>>

PrepareInit ==
    /\ \E i \in DOMAIN Families : \E n \in Families[i] : request = Request(i, n)
    /\ src = request.src /\ Begin
    /\ rich = Rich!Fresh(request.workspace)
    /\ route = "dispatch"

\* An explicit profile wins over the deployed one; the source's default is
\* left to the dialect.
Chosen == IF request.asked # "none" THEN request.asked ELSE request.deployed

\* prepare, up to the call of the dialect.
Dispatch ==
    /\ route = "dispatch"
    /\ route' = IF ~request.declared \/ ~request.captured THEN "refused"
                ELSE IF request.first = "config" THEN "authoring" ELSE "rich"
    /\ src' = [src EXCEPT !.profile = IF Chosen = "none" THEN @ ELSE Chosen]
    /\ rich' = [rich EXCEPT !.set.profile = Chosen]
    /\ UNCHANGED <<request, phase, walk, parsed, diags, ws, dfs, lin, fold, typed, gen>>

PrepareNext ==
    \/ Dispatch
    \/ route = "authoring" /\ Next /\ UNCHANGED preparing
    \/ route = "rich" /\ Rich!Next /\ UNCHANGED <<vars, request, route>>

Prepared ==
    CASE route = "authoring" -> Done [] route = "rich" -> Rich!Done [] OTHER -> route = "refused"
PrepareStop == Prepared /\ UNCHANGED allVars

\* As in Authoring: one thread, which never waits.
PrepareProgress == []<>Prepared \/ []<><<TRUE>>_allVars

PrepareSpec == PrepareInit /\ [][PrepareNext \/ PrepareStop]_allVars /\ PrepareProgress

-----------------------------------------------------------------------------
\* A rich workspace is refused as cyclic only when it is, a cycle of
\* includes or profiles is always noticed, and the self-checks of evaluation
\* (a target that was not captured, a document nobody reaches, provenance
\* out of order) never fail.
RejectedForCause == Rich!RejectedForCause

\* Every value of a rich document is what the newest provenance record at
\* its path, or above it, says was written there: by Emit, by each operation
\* of a patch, inside loops, conditionals and fragments.
Explained == Rich!Explained

\* Every preparation ends, in either dialect, also on cyclic includes,
\* profiles, types, variables and fragments.
Terminates == <>Prepared
=============================================================================

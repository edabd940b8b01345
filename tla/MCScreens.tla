------------------------------ MODULE MCScreens ------------------------------
(***************************************************************************)
(* The screens, for TLC.  They share no state, so a behaviour is one of a  *)
(* single screen, chosen at the start; the others stay as they begin.      *)
(***************************************************************************)
EXTENDS UserSearch, PostFeed, ObservedArray, Composer

CONSTANTS u1, u2

VARIABLE screen

allVars == <<screen, searchVars, feedVars, arrayVars, composerVars>>

\* The screens that are not chosen begin in one state
Unchosen ==
    /\ screen # "search" => registered = {}
    /\ screen # "feed" => published = 0
    /\ screen # "array" => arrays = << <<>> >>
    /\ screen # "composer" => hasId

Init ==
    /\ screen \in {"search", "feed", "array", "composer"}
    /\ SearchInit /\ FeedInit /\ ArrayInit /\ ComposerInit
    /\ Unchosen

Search == /\ screen = "search" /\ SearchNext
          /\ UNCHANGED <<screen, feedVars, arrayVars, composerVars>>
Feed == /\ screen = "feed" /\ FeedNext
        /\ UNCHANGED <<screen, searchVars, arrayVars, composerVars>>
Array == /\ screen = "array" /\ ArrayNext
         /\ UNCHANGED <<screen, searchVars, feedVars, composerVars>>
Compose == /\ screen = "composer" /\ ComposerNext
           /\ UNCHANGED <<screen, searchVars, feedVars, arrayVars>>

Next == Search \/ Feed \/ Array \/ Compose

FairSpec ==
    /\ Init /\ [][Next]_allVars
    /\ screen = "search" => SearchFairness
    /\ screen = "feed" => FeedFairness
    /\ screen = "array" => ArrayFairness

ScreensTypeOK == SearchTypeOK /\ FeedTypeOK /\ ArrayTypeOK /\ ComposerTypeOK

\* The spinner of the search and the refresh control of the feed stop, and an
\* observed array comes to the screen.
ScreensSettle == SpinnerGoes /\ RefreshEnds /\ StoredIsShown
=============================================================================

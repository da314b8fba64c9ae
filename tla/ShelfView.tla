------------------------------ MODULE ShelfView ------------------------------
(***************************************************************************)
(* ShelfViewController over the downloads of ComicDownload: a table that   *)
(* shows how far each download is, reloaded when the view appears, when a  *)
(* segment is chosen, and four times a second by a chain of asyncAfter     *)
(* closures that goes on for as long as Comic.isDowloading is above zero.  *)
(*                                                                         *)
(* The callbacks of Firebase, the closures and the user's taps all run on  *)
(* the main queue, in any order.  The segments History and Like are one    *)
(* here, "other", without rows: see HistoryList and LikeList.              *)
(***************************************************************************)
EXTENDS ComicDownload

CONSTANT MaxTimers (* bound on the chains of closures *)
ASSUME MaxTimersAssumption == MaxTimers \in Nat

VARIABLES
  selected, (* the shelf's tab is the selected one                         *)
  segment,  (* the selected segment of segMenu                             *)
  cameOn,   (* the segment that was selected when the view last appeared   *)
  timers,   (* closures of asyncAfter that have not run: one for a chain   *)
  table     (* the rows of the table as they were last loaded              *)

shelfVars == <<selected, segment, cameOn, timers, table>>
allVars == <<vars, shelfVars>>

-----------------------------------------------------------------------------
(* A view of a comic covers the shelf when it is on the shelf's stack, and *)
(* hides the tab bar on any.                                               *)
OnScreen == selected /\ info = <<>>

(* What a row shows: the comic, and the size received so far until it is   *)
(* finished.                                                               *)
Row(row) ==
  LET finish == row.origin = Restored \/ dl[row.origin].phase = "finished"
  IN [comic |-> row.comic, finish |-> finish,
      Dsize |-> IF finish THEN 0 ELSE dl[row.origin].tmpTotalSize]
Rows == [i \in DOMAIN listDownload |-> Row(listDownload[i])]
Loaded(seg) == IF seg = "download" THEN Rows ELSE <<>>

ShelfInit ==
  /\ Init
  /\ selected = FALSE
  /\ segment = "download" /\ cameOn = "download"
  /\ timers = 0
  /\ table = <<>>

-----------------------------------------------------------------------------
(* viewWillAppear: the table is reloaded; while something is downloading,  *)
(* and its segment is selected, another chain of reloads is started.       *)
Appears ==
  /\ table' = Loaded(segment)
  /\ cameOn' = segment
  /\ IF segment = "download" /\ isDowloading > 0
       THEN timers < MaxTimers /\ timers' = timers + 1
       ELSE UNCHANGED timers

SelectTab ==
  /\ info = <<>>
  /\ selected' = ~selected
  /\ IF selected' THEN Appears ELSE UNCHANGED <<cameOn, timers, table>>
  /\ UNCHANGED <<vars, segment>>

(* Back from a comic; when the shelf was under it, the shelf appears.      *)
BackToShelf ==
  /\ Back
  /\ IF selected /\ info' = <<>> THEN Appears ELSE UNCHANGED <<cameOn, timers, table>>
  /\ UNCHANGED <<selected, segment>>

(* reLoad: a segment is chosen; no chain is started.                       *)
ReLoad ==
  /\ OnScreen
  /\ segment' \in {"download", "other"} \ {segment}
  /\ table' = Loaded(segment')
  /\ UNCHANGED <<vars, selected, cameOn, timers>>

(* Mutants of SleepAndReload: the chain never ends; it ends before the     *)
(* last reload.                                                            *)
MutantNeverEnds ==
  /\ timers > 0
  /\ table' = Loaded(segment)
  /\ UNCHANGED <<vars, selected, segment, cameOn, timers>>
MutantNoLastReload ==
  /\ timers > 0
  /\ table' = IF isDowloading > 0 THEN Loaded(segment) ELSE table
  /\ timers' = IF isDowloading > 0 THEN timers ELSE timers - 1
  /\ UNCHANGED <<vars, selected, segment, cameOn>>
(* A closure runs: it reloads the table, wherever the user is by now, and  *)
(* leaves a next one while something is downloading.                       *)
SleepAndReload ==
  /\ timers > 0
  /\ table' = Loaded(segment)
  /\ timers' = IF isDowloading > 0 THEN timers ELSE timers - 1
  /\ UNCHANGED <<vars, selected, segment, cameOn>>

(* A row is tapped: the comic that now has its number is opened over the   *)
(* shelf.  A row of the other segments may be any comic.                   *)
TapRow ==
  /\ selected
  /\ \E c \in IF segment = "download" THEN {listDownload[i].comic : i \in DOMAIN table}
              ELSE Comics : OpenInfo(c)
  /\ UNCHANGED shelfVars

(* A comic is opened in another tab.  While the shelf's tab is selected a  *)
(* tapped review changes Comic.id, but its view waits for its own tab.     *)
OpenElsewhere ==
  /\ \E c \in Comics :
       \/ ~selected /\ OpenInfo(c)
       \/ ReviewArrives(c) /\ (selected => info' = info)
  /\ UNCHANGED shelfVars

DownloadProceeds ==
  /\ \/ \E s \in Sessions : Download(s) \/ DocumentArrives(s) \/ PosterArrives(s)
     \/ \E r \in net : RequestFails(r)
     \/ \E s \in Sessions, k \in Chapters : ListArrives(s, k)
     \/ \E r \in net : ImageArrives(r.session, r.chapter, r.image)
  /\ UNCHANGED shelfVars

Launch ==
  /\ Restart
  /\ selected' = FALSE
  /\ segment' = "download" /\ cameOn' = "download"
  /\ timers' = 0
  /\ table' = <<>>

ShelfNext ==
  \/ SelectTab \/ BackToShelf \/ ReLoad \/ SleepAndReload \/ TapRow
  \/ OpenElsewhere
  \/ DownloadProceeds
  \/ Launch

ShelfSpec == ShelfInit /\ [][ShelfNext]_allVars

(* The SDK answers every request, and the main queue runs every closure.   *)
FairShelfSpec ==
  /\ ShelfSpec
  /\ \A s \in Sessions : WF_allVars(Answered(s) /\ UNCHANGED shelfVars)
  /\ WF_allVars(SleepAndReload)

-----------------------------------------------------------------------------
(* Properties *)

Segments == {"download", "other"}
ShownRow == [comic : Comics, finish : BOOLEAN, Dsize : Nat]

(* ShelfTypeOK: every variable keeps its shape, and no reload leaves more  *)
(* closures behind than there were chains.                                 *)
ShelfTypeOK ==
  /\ selected \in BOOLEAN
  /\ segment \in Segments /\ cameOn \in Segments
  /\ timers \in 0..MaxTimers
  /\ table \in Seq(ShownRow)

(* ShelfKeepsUp: on the screen the Download shelf is up to date, or a      *)
(* closure that reloads it is still to run: the last change, the one that  *)
(* finishes the last download, is never missed.  This takes that the view  *)
(* appeared on that segment: choosing the segment later starts no chain.   *)
ShelfKeepsUp ==
  OnScreen /\ segment = "download" /\ cameOn = "download" => timers > 0 \/ table = Rows

(* RowOpensItsComic: a tap opens the comic the row shows, though the list  *)
(* may have grown since the row was loaded.                                *)
RowOpensItsComic ==
  segment = "download" =>
    \A i \in DOMAIN table : i \in DOMAIN listDownload /\ listDownload[i].comic = table[i].comic

(* PollingEnds: the chains of reloads end, unless a download can not: one  *)
(* of its requests failed, another session fills the same LComic, or a     *)
(* chapter folder is empty.                                                *)
PollingEnds ==
  timers > 0 ~>
    \/ timers = 0
    \/ \E s \in Sessions : /\ dl[s].phase = "running"
                           /\ s \in broken \/ ~Undisturbed(s) \/ HasEmptyChapter(dl[s].comic)
=============================================================================

---------------------------- MODULE ClientWindow ----------------------------
(***************************************************************************)
(* The window of the client: the list of songs, the tracker and the        *)
(* buttons, with one thread and one mouse for all.  They share nothing but *)
(* that thread and the room of the window; so that their states are not    *)
(* multiplied, `focus' is the part that a behaviour is about.              *)
(***************************************************************************)
EXTENDS Tracker, SongList, ButtonPanel

CONSTANTS Foci           \* bound: the parts a run looks at

VARIABLES focus

windowVars == <<focus, trackerVars, listVars, buttonVars>>

\* onCreate
WindowInit ==
    /\ focus \in Foci /\ TrackerInit /\ ListInit /\ ButtonInit
    /\ focus # "list" => windowHeight = Min(WindowHeights) /\ totalHeight = Min(StrayHeights)

WindowNext ==
    /\ UNCHANGED focus
    /\ \/ focus = "tracker" /\ TrackerNext /\ UNCHANGED <<listVars, buttonVars>>
       \/ focus = "list" /\ (addRemoteFile \/ ListMessage) /\ UNCHANGED <<trackerVars, buttonVars>>
       \/ focus = "buttons" /\ ButtonMessage /\ UNCHANGED <<trackerVars, listVars>>

WindowSpec == WindowInit /\ [][WindowNext]_windowVars /\ (focus = "tracker" => TrackerFairness)
=============================================================================

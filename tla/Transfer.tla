------------------------------ MODULE Transfer ------------------------------
(***************************************************************************)
(* What modelferry promises as a whole: sessions on the disconnected host  *)
(* put files into one destination directory, and a session that reports    *)
(* success has the complete model of one commit there.  How the files get  *)
(* there, and what is on the media meanwhile, is Ferry's business.         *)
(***************************************************************************)
EXTENDS Naturals

CONSTANTS
    Sessions, \* operators on the disconnected host
    Names,    \* names of the destination directory
    Commits,  \* the commits of the model
    Repo,     \* the files of each commit: name -> contents
    NoFile, NoCommit

VARIABLES
    tree,     \* what is at each name
    working,  \* sessions that have a command running
    delivered \* the commit that the last command of a session delivered

transferVars == <<tree, working, delivered>>

Init ==
    /\ tree = [n \in Names |-> NoFile]
    /\ working = {}
    /\ delivered = [s \in Sessions |-> NoCommit]

Start(s) ==
    /\ s \notin working
    /\ working' = working \cup {s}
    /\ delivered' = [delivered EXCEPT ![s] = NoCommit]
    /\ UNCHANGED tree

\* A file appears in one piece, over whatever was there.
Install(s, c, n) ==
    /\ s \in working
    /\ n \in DOMAIN Repo[c]
    /\ tree' = [tree EXCEPT ![n] = Repo[c][n]]
    /\ UNCHANGED <<working, delivered>>

Holds(c) == \A n \in DOMAIN Repo[c] : tree[n] = Repo[c][n]

Deliver(s, c) ==
    /\ s \in working
    /\ Holds(c)
    /\ working' = working \ {s}
    /\ delivered' = [delivered EXCEPT ![s] = c]
    /\ UNCHANGED tree

\* The command fails, is refused or killed, or was not an unpack.
GiveUp(s) ==
    /\ s \in working
    /\ working' = working \ {s}
    /\ UNCHANGED <<tree, delivered>>

Next ==
    \E s \in Sessions :
      \/ Start(s) \/ GiveUp(s)
      \/ \E c \in Commits : Deliver(s, c) \/ \E n \in Names : Install(s, c, n)

Spec == Init /\ [][Next]_transferVars
=============================================================================

------------------------------- MODULE Download -------------------------------
(***************************************************************************)
(* What mget promises of a download, whatever protocol, crash, Ctrl-C or   *)
(* broken connection there is on the way: what has been fetched is kept,   *)
(* and the download is over only when every position to be fetched is there.*)
(***************************************************************************)
CONSTANT Positions   \* the positions that are to be fetched

VARIABLES
    got,   \* the positions stored for good
    done   \* the download was reported finished

downloadVars == <<got, done>>

DownloadInit == got = {} /\ done = FALSE

Fetch ==
    /\ ~done
    /\ \E more \in SUBSET (Positions \ got) : got' = got \cup more
    /\ UNCHANGED done

Finish ==
    /\ ~done
    /\ got = Positions
    /\ done' = TRUE
    /\ UNCHANGED got

DownloadNext == Fetch \/ Finish

DownloadSpec == DownloadInit /\ [][DownloadNext]_downloadVars
===============================================================================

--------------------------- MODULE CredentialSwap ---------------------------
(***************************************************************************)
(* What gce_workload_cert_refresh promises to a workload that reads its    *)
(* credentials below /run/secrets/workload-spiffe-credentials, without     *)
(* directories, links and runs: the directory appears once, and from then  *)
(* on what it shows is replaced as a whole.                                *)
(***************************************************************************)
EXTENDS Naturals

CONSTANT MaxGen    \* bound: generations of the credentials

VARIABLES
    path,      \* what the path leads to: "none" or "directory"
    shown,     \* what it holds
    writing    \* a run of the program is writing into it

vars == <<path, shown, writing>>

\* Of each file, the generation of the metadata it was written from; 0 stands for
\* a file that is missing or incomplete.
Contents == [status : 0..MaxGen, cert : 0..MaxGen, key : 0..MaxGen, ca : 0..MaxGen]
Nothing == [status |-> 0, cert |-> 0, key |-> 0, ca |-> 0]

\* The private key belongs to the certificate, and the trust anchors are no older.
Whole(c) == c.status > 0 /\ c.cert > 0 /\ c.key = c.cert /\ c.ca >= c.cert

Init == path = "none" /\ shown = Nothing /\ writing = FALSE

\* config_status is there from the beginning, "to surface config errors to the VM".
Appear ==
    /\ path = "none" /\ path' = "directory"
    /\ shown' \in {[Nothing EXCEPT !.status = g] : g \in 1..MaxGen}
    /\ writing'

\* A run that writes into the directory itself: the one that made it, or one in
\* the same second.
Write == writing /\ shown' \in Contents /\ UNCHANGED path

Replace ==
    /\ path = "directory" /\ Whole(shown')
    /\ shown' \in Contents /\ shown'.cert >= shown.cert
    /\ UNCHANGED path

\* A run in the same second begins to write, or a run ends.
Reopen == UNCHANGED <<path, shown>>

\* /run does not outlive a boot.
Reboot == path' = "none" /\ shown' = Nothing /\ writing' = FALSE

Next ==
    /\ writing' \in BOOLEAN
    /\ Appear \/ Write \/ Replace \/ Reopen \/ Reboot

Spec == Init /\ [][Next]_vars
=============================================================================

----------------------------- MODULE MCWatchers -----------------------------
(* Watchers for TLC: two addresses, two drift tokens and three descriptors; *)
(* stop-state missing, NONE or PENDING_STOP.                                *)
EXTENDS Watchers

CONSTANTS a, b, t1, t2, NoStop

MCValues ==
    [k \in {Root, StopState} |->
        IF k = StopState THEN {PendingStop, NoStop, Missing}
        ELSE {[ips |-> {a}, token |-> t1], [ips |-> {a, b}, token |-> t2], [ips |-> {b}, token |-> t1]}]

MCMaxVersion == [k \in {Root, StopState} |-> IF k = StopState THEN 3 ELSE 2]

Guest(system, own, shared, kind) ==
    [os |-> system, attrs |-> [l \in Levels |-> IF l = "instance" THEN own ELSE shared],
     urlKind |-> kind]

MCGuests ==
    {Guest("linux", {"script", "url"}, {"url"}, kind) : kind \in {"gcs", "http", "invalid"}}
    \cup {Guest("linux", {}, {"script", "url"}, "gcs"), Guest("linux", {}, {}, "http"),
          Guest("windows", {"ps1", "bat", "url"}, {}, "gcs")}
=============================================================================

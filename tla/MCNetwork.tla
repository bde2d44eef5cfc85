----------------------------- MODULE MCNetwork ------------------------------
(* Network for TLC: a managed secondary interface with two VLANs, one the  *)
(* guest lacks, and descriptors that add and remove each of them.          *)
EXTENDS Network

CONSTANTS n0, n1, n2, v1, v2

OnSecondary == [v \in Vlans |-> n1]

Descriptor(nics, v6, vlans) == [nics |-> nics, v6 |-> v6, vlans |-> vlans]

MCMetadata == {
    Descriptor({n0, n1}, {}, {v1}),
    Descriptor({n0, n1, n2}, {n1}, {v1, v2}),
    Descriptor({n0, n1}, {n0, n1}, {}),
    Descriptor({n0}, {}, {}),
    Descriptor({n0}, {}, {v1}) }

Config(primary, vlans, guest) == [managePrimary |-> primary, vlanSetup |-> vlans, guest |-> guest]

MCConfigs == {
    Config(FALSE, TRUE, "plain"), Config(TRUE, FALSE, "plain"),
    Config(FALSE, TRUE, "debian12"), Config(TRUE, FALSE, "ubuntu1804"),
    Config(FALSE, TRUE, "dhclient") }
=============================================================================

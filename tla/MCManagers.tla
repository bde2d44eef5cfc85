---------------------------- MODULE MCManagers ----------------------------
(* Managers for TLC.  Linux: a user with two keys, a user with one, keys   *)
(* on the instance and on the project, a malformed entry, OS Login, and an *)
(* account without a login shell.  Windows: for each manager a handful of  *)
(* values of its part of the metadata, the odd ones among them.            *)
EXTENDS Managers

CONSTANTS u1, u2, u3, k1, k2

Entry(u, k) == [user |-> u, key |-> k]
Plain(inst, proj) ==
    [instance |-> inst, project |-> proj, block |-> FALSE, osInstance |-> "unset", osProject |-> "unset"]

NoKeys == Plain(<<>>, <<>>)
BothKeys == Plain(<<Entry(u1, k1)>>, <<Entry(u1, k2), Entry(Malformed, k1)>>)
Blocked == [BothKeys EXCEPT !.block = TRUE]
OtherUsers == Plain(<<Entry(u1, k2)>>, <<Entry(u2, k1), Entry(u3, k1)>>)
ProjectOSLogin == [BothKeys EXCEPT !.osProject = "true"]
InstanceOptsOut == [ProjectOSLogin EXCEPT !.osInstance = "false"]

AllDescriptors == {NoKeys, BothKeys, Blocked, OtherUsers, ProjectOSLogin, InstanceOptsOut}

-----------------------------------------------------------------------------
CONSTANTS w1, w2, c1, c2, own, p1

WinKey(u, i, member, good) == [user |-> u, id |-> i, admin |-> member, valid |-> good]
FirstKey == WinKey(w1, "k1", "unset", TRUE)
SecondKey == WinKey(w1, "k2", "true", TRUE)
OddKey == WinKey(w2, "k3", "false", FALSE)

AccountsPart(keys, on, users) == [keys |-> keys, ssh |-> on, sshUsers |-> users]
NoAccounts == AccountsPart(<<>>, FALSE, {})

DiagnosticsPart(name, good, on) == [request |-> [id |-> name, valid |-> good], enable |-> on]
NoDiagnostics == DiagnosticsPart("none", FALSE, "unset")

NoWsfc ==
    [enable |-> "unset", addresses |-> FALSE, projectEnable |-> "unset", projectAddresses |-> FALSE,
     port |-> NoPort, projectPort |-> NoPort]

AddressesPart(wanted, cluster, on) == [ips |-> wanted, wsfcAddresses |-> cluster, wsfcEnable |-> on]

MCParts ==
    [m \in WindowsManagers |->
        CASE m = "accounts" ->
                {NoAccounts, AccountsPart(<<FirstKey>>, FALSE, {w2}),
                 AccountsPart(<<FirstKey, SecondKey>>, TRUE, {w1, w2}),
                 AccountsPart(<<SecondKey, OddKey>>, TRUE, {})}
          [] m = "diagnostics" ->
                {NoDiagnostics, DiagnosticsPart("r1", TRUE, "unset"), DiagnosticsPart("r2", TRUE, "true"),
                 DiagnosticsPart("r1", TRUE, "false"), DiagnosticsPart("expired", FALSE, "true")}
          [] m = "wsfc" ->
                {NoWsfc, [NoWsfc EXCEPT !.enable = "true"],
                 [NoWsfc EXCEPT !.enable = "true", !.port = p1],
                 [NoWsfc EXCEPT !.addresses = TRUE, !.projectEnable = "false", !.projectPort = p1],
                 [NoWsfc EXCEPT !.enable = "false", !.projectAddresses = TRUE],
                 [NoWsfc EXCEPT !.projectEnable = "true", !.port = BadPort]}
          [] m = "addresses" ->
                {AddressesPart({}, {}, FALSE), AddressesPart({c1, c2}, {}, FALSE),
                 AddressesPart({c1, c2}, {c1}, TRUE), AddressesPart({c2, own}, {}, FALSE),
                 AddressesPart({c1, c2}, {}, TRUE)}]

MCNoPart ==
    [m \in WindowsManagers |->
        CASE m = "accounts" -> NoAccounts
          [] m = "diagnostics" -> NoDiagnostics
          [] m = "wsfc" -> NoWsfc
          [] m = "addresses" -> AddressesPart({}, {}, FALSE)]
=============================================================================

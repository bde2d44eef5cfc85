------------------------- MODULE MCOSLoginConfig -------------------------
(* OSLoginConfig for TLC: files with and without a final newline, empty,   *)
(* with entries of an agent that marked single lines, and with its blocks. *)
EXTENDS OSLoginConfig

Enabled == [NoFlags EXCEPT !.enable = TRUE]
TwoFactor == [Enabled EXCEPT !.twofactor = TRUE]
SecurityKey == [Enabled EXCEPT !.skey = TRUE, !.reqCerts = TRUE]
CertsOnly == [TwoFactor EXCEPT !.reqCerts = TRUE]
MCFlags == {NoFlags, Enabled, SecurityKey, CertsOnly}

MCFiles == {
    <<"a", "b", "">>,
    <<"a">>,
    <<"">>,
    <<"", "">>,
    <<"C", "keys", "a", "C", "2fa", "">>,
    <<"S", "keys", "E", "b", "", "S", "include", "E", "">> }
==========================================================================

----------------------------- MODULE MCSChannel -----------------------------
(* Instances of SChannel for TLC. *)
EXTENDS SChannel

\* A record may come along with the end of the handshake, or not.
EarlyData == {0, 1}

NoEarlyData == {0}

\* Each check skipped alone, with and without certificates; and a PEM text
\* that cannot be read.
EachSetting ==
    {[certs |-> <<"root", "intermediate">>, skip_verify |-> TRUE, skip_verify_hostname |-> FALSE],
     [certs |-> <<>>, skip_verify |-> FALSE, skip_verify_hostname |-> TRUE],
     [certs |-> <<"root", "malformed">>, skip_verify |-> FALSE, skip_verify_hostname |-> FALSE]}
AllCerts == [issuer : {"root", "intermediate", "system"}, named : BOOLEAN]
=============================================================================

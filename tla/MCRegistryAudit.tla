-------------------------- MODULE MCRegistryAudit --------------------------
(***************************************************************************)
(* One commitment key with a window, one without; a policy under notice    *)
(* and the one it may be amended to; a credential that expires.            *)
(***************************************************************************)
EXTENDS RegistryAudit

PolicyRules(amendment, notice) ==
    [registry |-> "registry", msd |-> MSD, amendment |-> amendment, notice |-> notice]

MCFirstPolicy ==
    [rules |-> PolicyRules("notice", 1),
     windows |-> <<[key |-> "k", openAt |-> 1, closeAt |-> 2]>>]
MCAmendment ==
    [rules |-> PolicyRules("frozen", None),
     windows |-> <<[key |-> "k", openAt |-> 1, closeAt |-> 3]>>]

MCRequests == {[credential |-> "c", key |-> "k", content |-> "a"],
               [credential |-> "c", key |-> "k", content |-> "b"],
               [credential |-> "c", key |-> "u", content |-> "a"]}
MCUpkeep == {"stream.paused", "stream.resumed", "stream.archived",
             "credential.revoked", "policy.amended"}
MCCredentials == [c \in {"c"} |-> None]
MCKeyEntries == <<[keyId |-> "key", publicKey |-> "key",
                   createdAt |-> 0, retiredAt |-> Horizon + 1]>>
=============================================================================

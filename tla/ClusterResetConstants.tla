----------------------- MODULE ClusterResetConstants -----------------------
(* The parameters of ClusterReset. *)
CONSTANTS
    Frontend,      \* proxies of a TendbHA, spiders of a TenDBCluster
    Masters,    \* storage nodes configured as masters
    Slaves,     \* storage nodes configured as slaves
    Follows,    \* [Kind -> [Slaves -> Masters]]: the configured master of each slave
    Ctl,        \* tdbctl nodes
    CtlMaster,  \* the configured tdbctl master
    ClbWanted,  \* the instances configured for the CLB listener
    Blackhole,  \* 1.1.1.1, where a proxy is pointed so that no write gets through
    None,
    MaxRuns,    \* bound: resets started
    MaxWrites   \* bound: writes a master receives

Kind == {"tendbha", "tendbcluster"}

ASSUME ResetAssumption ==
    /\ Follows \in [Kind -> [Slaves -> Masters]]
    \* changeMasterForAllRemoteSlave keeps one slave for each remote master: a
    \* configuration with two slaves of one remote master is not covered.
    /\ \A s, t \in Slaves : Follows["tendbcluster"][s] = Follows["tendbcluster"][t] => s = t
    /\ Masters \cap Slaves = {}
    /\ CtlMaster \in Ctl
    /\ ClbWanted \subseteq Frontend /\ ClbWanted # {}
    /\ Blackhole \notin Masters \cup Slaves /\ None \notin Masters \cup Slaves \cup Ctl
=============================================================================

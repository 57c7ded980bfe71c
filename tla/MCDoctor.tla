------------------------------ MODULE MCDoctor ------------------------------
EXTENDS Doctor

alice   == <<10, 8, 0, 6>>
bob     == <<-6>>
remote  == <<8, 8, 8, 8>>
mapped  == <<-64, 8, 8, 8>>

MCLeases == {alice, bob}
MCOthers == {remote, mapped}

MCTraffic ==
    {[src |-> alice, sport |-> 53, dst |-> remote, dport |-> 53, proto |-> "tcp", length |-> 100],
     [src |-> remote, sport |-> 0, dst |-> alice, dport |-> 0, proto |-> "icmp", length |-> 0],
     [src |-> mapped, sport |-> 0, dst |-> bob, dport |-> 0, proto |-> "icmp", length |-> 0]}
=============================================================================

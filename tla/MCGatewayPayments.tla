-------------------------- MODULE MCGatewayPayments --------------------------
EXTENDS GatewayPayments

\* Three payments with treasury away and goroutines lost; two with a declined attempt and crashing or
\* racing handlers, with failing statements, with a voided payment, or overlapping.
Two(hazards) == [may |-> hazards, pays |-> 2]
MCScenes == {[may |-> {"fail", "late", "crash"}, pays |-> 3]} \cup
            {Two({"decline", "crash"}), Two({"decline", "race"}), Two({"db", "lost"}),
             Two({"void", "fail"}), Two({"overlap", "decline"})}
=============================================================================

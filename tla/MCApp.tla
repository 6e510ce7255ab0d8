------------------------------- MODULE MCApp --------------------------------
\* Two requests about one user, with every database driver and the four identity
\* providers: in a process with everything configured, and in two without Redis
\* and gRPC, one with no subscription and one with a batch subscription.
EXTENDS App, TLC
CONSTANTS r1, r2, u1, name, role, old, new
MCRequests == {r1, r2}
MCUsers == {u1}
MCFields == {name, role}
MCValues == {old, new}
MCBodies == {name :> new, role :> new}
MCSettings == {<<"gorm", "jwt">>, <<"sqlc", "saml">>, <<"sqlc", "keycloak">>,
               <<"mongo", "oauth2">>}
MCTokens ==
    {[genuine |-> FALSE, role |-> "admin", roles |-> <<"admin">>],
     [genuine |-> TRUE, role |-> "", roles |-> <<>>],
     [genuine |-> TRUE, role |-> "admin", roles |-> <<"admin">>],
     [genuine |-> TRUE, role |-> "user", roles |-> <<"user", "admin">>]}
All   == [redis |-> TRUE, grpc |-> TRUE, kafka |-> TRUE, subs |-> "plain"]
Batch == [redis |-> FALSE, grpc |-> FALSE, kafka |-> TRUE, subs |-> "batch"]
Least == [redis |-> FALSE, grpc |-> FALSE, kafka |-> FALSE, subs |-> "none"]
MCConfigs == {All, Batch, Least}
\* The combinations that are explored.
MCInit ==
    /\ Init
    /\ <<cfg, driver, provider>> \in
          {<<All, "gorm", "jwt">>, <<Batch, "sqlc", "keycloak">>,
           <<Least, "sqlc", "saml">>, <<Least, "mongo", "oauth2">>}
MCFairSpec == MCInit /\ [][Next]_vars /\ Fairness
=============================================================================

------------------------------ MODULE MCDefences ------------------------------
(* The weights of the code, and the symmetry of the clients, for TLC.         *)
EXTENDS LoginDefencesProperties, TLC

MCWeights ==
    [e \in Events |-> CASE e = "failed_login_attempt" -> 10
                        [] e = "login_rate_limit_triggered" -> 14
                        [] e = "otp_failed_attempt" -> 12
                        [] e = "otp_challenge_replay_detected" -> 15]

ClientsAlike == Permutations(Clients)
=============================================================================

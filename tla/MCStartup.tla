----------------------------- MODULE MCStartup -----------------------------
(* A working environment, and every one that differs from it in at most two *)
(* variables: any two of the checks meet.                                   *)
EXTENDS Startup, FiniteSets

Base ==
  [http |-> ":80", alias |-> "", https |-> "", cert |-> FALSE, key |-> FALSE,
   database |-> "url", identity |-> "url", secret |-> TRUE, upstream |-> "url",
   queue |-> 0, capture |-> 0, prompt |-> 0, days |-> 0, refresh |-> 0, ttl |-> 0,
   shutdown |-> 0, username |-> "none", password |-> 0, newline |-> FALSE,
   prefixes |-> <<"">>, busy |-> {}, pair |-> TRUE]

Secure == [Base EXCEPT !.https = ":443", !.cert = TRUE, !.key = TRUE, !.password = 12]

Values ==
  [http |-> {"", ":80"}, alias |-> {"", ":81"}, https |-> {"", ":443", ":80"},
   cert |-> BOOLEAN, key |-> BOOLEAN,
   database |-> {"none", "url", "malformed"}, identity |-> {"none", "url", "malformed"},
   secret |-> BOOLEAN, upstream |-> {"none", "url", "other"},
   queue |-> {-1, 0, 1, MaxQueue, MaxQueue + 1}, capture |-> {0, 1023, 1024},
   prompt |-> {0, 255, 256}, days |-> {-1, 0, 30}, refresh |-> {-1, 0, 5},
   ttl |-> {-1, 0, 5}, shutdown |-> {-1, 0, 5},
   username |-> {"none", "good", "bad"}, password |-> {0, 11, 12, 72, 73},
   newline |-> BOOLEAN, prefixes |-> {<<"">>, <<"", "">>, <<"/v1">>, <<"/v1", "">>},
   busy |-> {{}, {":80"}, {":81"}, {":443"}, {":8090"}}, pair |-> BOOLEAN]

MCEnvironments ==
  UNION {{[base EXCEPT ![x] = a, ![y] = b] : a \in Values[x], b \in Values[y]} :
         base \in {Base, Secure}, x \in DOMAIN Base, y \in DOMAIN Base}
=============================================================================

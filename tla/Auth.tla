-------------------------------- MODULE Auth --------------------------------
(* Tokens: where the four services take the secret from, who signs, and what *)
(* each service's copy of VerifyToken (dependencies/auth.py) makes of a      *)
(* token.  A deployment is what the services find when they start: the       *)
(* secret in their environment, and in the .env file of each, and which of   *)
(* these name the algorithm, which is HS256.                                 *)
EXTENDS Naturals, HttpRoutes

CONSTANTS
    Secrets,
    Lifetime   \* of a token: 48 hours in the code

ASSUME AuthAssumption == Lifetime \in Nat \ {0}

(* "none": there is no secret.  "nofile": no .env file, or an empty one.     *)
Deployment ==
    [environ : Secrets \union {"none"},
     dotenv : [Services -> Secrets \union {"none", "nofile"}],
     algo : SUBSET (Services \union {"environ"})]

Token == [secret : Secrets, exp : Nat]

(* A .env file with anything in it takes the place of the environment.       *)
Config(d, s) == IF d.dotenv[s] = "nofile" THEN d.environ ELSE d.dotenv[s]

(* Mutated form: what Config gives comes first.                              *)
ConfigFirst(d, s) == IF Config(d, s) # "none" THEN Config(d, s) ELSE d.environ

EnvironFirst(d, s) == IF d.environ # "none" THEN d.environ ELSE Config(d, s)

users_JWT_SECRET(d) == EnvironFirst(d, "users")
feed_JWT_SECRET(d) == EnvironFirst(d, "feed")
search_JWT_SECRET(d) == EnvironFirst(d, "search")
tweets_JWT_SECRET(d) == Config(d, "tweets")

JWT_SECRET(d, s) ==
    CASE s = "users" -> users_JWT_SECRET(d)
      [] s = "tweets" -> tweets_JWT_SECRET(d)
      [] s = "feed" -> feed_JWT_SECRET(d)
      [] s = "search" -> search_JWT_SECRET(d)

(* Mutated form: no secret is no error.                                      *)
StartsAnyway(d, s) == TRUE

(* The others have a default for it.                                         *)
tweets_JWT_ALGO(d) ==
    (IF d.dotenv["tweets"] = "nofile" THEN "environ" ELSE "tweets") \in d.algo

(* A service without a secret raises an error on import, and the tweets      *)
(* service without an algorithm.                                             *)
Starts(d, s) == JWT_SECRET(d, s) # "none" /\ (s = "tweets" => tweets_JWT_ALGO(d))

(* Mutated form: the time of signing.                                        *)
NoLifetime(d, now) == [secret |-> users_JWT_SECRET(d), exp |-> now]

sign_jwt(d, now) == [secret |-> users_JWT_SECRET(d), exp |-> now + Lifetime]

(* PyJWT: the signature first, then the time.                                *)
decode(token, secret, now) ==
    IF token.secret # secret THEN "invalid"
    ELSE IF token.exp <= now THEN "expired" ELSE "payload"

users_VerifyToken(what) == IF what = "payload" THEN "user" ELSE "403"
feed_VerifyToken(what) == IF what = "payload" THEN "user" ELSE "403"
search_VerifyToken(what) == IF what = "payload" THEN "user" ELSE "403"

(* The tweets service turns exceptions into an empty payload, and fails to   *)
(* find the user in it.                                                      *)
tweets_VerifyToken(what) == IF what = "payload" THEN "user" ELSE "500"

VerifyToken(d, s, token, now) ==
    LET what == decode(token, JWT_SECRET(d, s), now)
    IN CASE s = "users" -> users_VerifyToken(what)
         [] s = "tweets" -> tweets_VerifyToken(what)
         [] s = "feed" -> feed_VerifyToken(what)
         [] s = "search" -> search_VerifyToken(what)

Accepts(d, s, token, now) == Starts(d, s) /\ VerifyToken(d, s, token, now) = "user"
=============================================================================

------------------------------- MODULE Severity -------------------------------
(***************************************************************************)
(* The two scorers of an investigation as pure operators: the              *)
(* deterministic severity engine and the cheap heuristic of the triage     *)
(* node.  A secret is a record of its type, environment and exposure.      *)
(*                                                                         *)
(* Factors are hundredths, logarithms thousandths.  The engine's float sum *)
(* times 100 is Points / Unit here; round() gives the nearest integer, and *)
(* at an exact tie the float may lie on either side of it.                 *)
(***************************************************************************)
EXTENDS Integers, FiniteSets

SecretTypes == {"aws_access_key", "database_url", "github_token", "api_key",
                "private_key", "other"}
Environments == {"prod", "staging", "dev", "unknown"}
Exposures == {"public_leak", "live_inferred", "inactive", "unknown"}

Secret == [type : SecretTypes, environment : Environments, exposure : Exposures]

EnvFactor(e) ==
    CASE e = "prod" -> 100 [] e = "staging" -> 60 [] e = "dev" -> 30
      [] e = "unknown" -> 50

ExposureBase(x) ==
    CASE x = "public_leak" -> 100 [] x = "live_inferred" -> 70
      [] x = "inactive" -> 10 [] x = "unknown" -> 50

TypeBump(t) ==
    CASE t \in {"aws_access_key", "private_key"} -> 15
      [] t \in {"database_url", "github_token"} -> 10
      [] t = "api_key" -> 5
      [] t = "other" -> 0

ExposureFactor(s) ==
    LET f == ExposureBase(s.exposure) + TypeBump(s.type)
    IN  IF f > 100 THEN 100 ELSE f

\* Seven doublings fill the scope factor.
ScopeCap == 7000

\* 1000 * log2(n + 1), up to the cap: exactly for the sizes that the instances
\* reach, and within the same power of two for larger ones.
Log2Succ(n) ==
    CASE n = 0 -> {0} [] n = 1 -> {1000} [] n = 2 -> {1585} [] n = 3 -> {2000}
      [] n = 4 -> {2322} [] n = 5 -> {2585} [] n = 6 -> {2807} [] n = 7 -> {3000}
      [] n \in 8..14 -> 3000..4000 [] n \in 15..30 -> 4000..5000
      [] n \in 31..62 -> 5000..6000 [] n \in 63..126 -> 6000..ScopeCap
      [] n >= 127 -> {ScopeCap}

Unit == 700

\* Unit * 100 * raw, for a scope of the given logarithm.
Points(scope, s) == 4 * scope + 175 * EnvFactor(s.environment)
                              + 245 * ExposureFactor(s)

\* min(100, round(raw * 100))
Rounded(points) == {n \in {points \div Unit, points \div Unit + 1} :
                        /\ 2 * Unit * n <= 2 * points + Unit
                        /\ 2 * points <= 2 * Unit * n + Unit}

\* Resources of these services count twice.
HighPrivTypes == {"iam", "rds", "secretsmanager", "kms", "sts", "ec2"}

Score(effective, s) ==
    UNION {Rounded(Points(scope, s)) : scope \in Log2Succ(effective)}

Bucket(score) ==
    CASE score >= 80 -> "critical"
      [] score >= 60 /\ score < 80 -> "high"
      [] score >= 35 /\ score < 60 -> "medium"
      [] score < 35 -> "low"

-------------------------------------------------------------------------------

AlwaysInvestigate == {"aws_access_key", "database_url", "private_key", "github_token"}

SkipThreshold == 20

TriageExposure(x) ==
    CASE x = "public_leak" -> 90 [] x = "live_inferred" -> 60
      [] x = "inactive" -> 10 [] x = "unknown" -> 30

TriageScore(s) ==
    LET e == TriageExposure(s.exposure)
        t == IF s.type \in AlwaysInvestigate /\ e < 55 THEN 55 ELSE e
        p == IF s.environment = "prod" THEN t + 20 ELSE t
    IN  IF p > 100 THEN 100 ELSE p

Skips(s) == TriageScore(s) < SkipThreshold /\ s.type \notin AlwaysInvestigate
===============================================================================

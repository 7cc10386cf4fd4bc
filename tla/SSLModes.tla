------------------------------ MODULE SSLModes ------------------------------
(***************************************************************************)
(* The SSL modes that each type of database accepts (pkg/datasource/sslmode).*)
(***************************************************************************)

DBTypes == {"POSTGRESQL", "MYSQL", "ORACLE", "SQL_SERVER", "MONGODB"}

(* Every mode some type accepts, none, and one that nobody knows. *)
Modes == {"off", "", "disable", "allow", "prefer", "require", "verify-ca", "verify-full",
          "false", "true", "skip-verify", "preferred", "enable", "verify", "strict",
          "insecure", "unknown"}

ValidatePostgreSQLMode(mode) ==
    mode \in {"", "disable", "allow", "prefer", "require", "verify-ca", "verify-full"}
ValidateMySQLMode(mode) == mode \in {"", "false", "true", "skip-verify", "preferred"}
ValidateOracleMode(mode) ==
    mode \in {"", "disable", "false", "true", "enable", "verify", "skip-verify"}
ValidateSQLServerMode(mode) == mode \in {"", "disable", "false", "true", "strict"}
ValidateMongoDBMode(mode) == mode \in {"", "disable", "false", "true", "enable", "insecure"}

ValidateSSLModeForType(type, mode) ==
    CASE type = "POSTGRESQL" -> ValidatePostgreSQLMode(mode)
      [] type = "MYSQL" -> ValidateMySQLMode(mode)
      [] type = "ORACLE" -> ValidateOracleMode(mode)
      [] type = "SQL_SERVER" -> ValidateSQLServerMode(mode)
      [] type = "MONGODB" -> ValidateMongoDBMode(mode)
      [] OTHER -> TRUE

=============================================================================

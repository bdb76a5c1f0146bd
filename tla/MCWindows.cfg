\* IncrementalIngest: two concurrent fetches and one record, or two records, a
\* page each, and fetches one after the other.  VersionOrder: three versions of
\* one scheme.
\* MatchEngine: three of ten statements in any order.  PriorityRuleset: four of
\* eight definitions, one of them malformed.
SPECIFICATION WindowsSpec
CONSTANTS
    Records = {1, 2}
    Fetchers = {f1, f2}
    Overlap = 1
    MaxLag = 1
    PageSize = 1
    NoCursor = NoCursor
    MaxTime = 3
    Jobs = {1, 2}
    VersionsOf <- Universe
    Components <- Inventory
    AffectedProducts <- Advisories
    AliasRules <- Aliases
    Corrections <- Rulings
    MatchInstants = {1, 2}
    MaxStatements = 3
    Levels <- RuleLevels
    Definitions <- RuleTrees
    FieldValues <- Vocabulary
    Uppers <- ScoreLimits
SYMMETRY FetcherSymmetry
VIEW WithoutRows
INVARIANTS NoModificationIsLost TotalOrder WindowsPartition OutcomeFollowsEvidence ProbesDecide
CHECK_DEADLOCK FALSE

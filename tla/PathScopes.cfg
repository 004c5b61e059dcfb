SPECIFICATION Spec
CONSTANTS
  Letters <- SomeLetters
  Paths <- SomePaths
  RulesPath <- RulesFile
  Scopes <- SomeScopes
  RuleScopes <- SomeRules
  Everything = Everything
  MaxChanged = 2
  MaxCommits = 2
INVARIANTS InScopeAccepted
 
CHECK_DEADLOCK FALSE

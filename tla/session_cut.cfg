SPECIFICATION Spec
CONSTANTS
  Key <- MCKey
  NextKeys = {}
  Dst = {}
  Trigger <- MCNone
  Period <- MCNone
  Word = 2
  Client = {c1, c2}
  Lines <- MCLines
  RuleText <- MCRuleText
  FirstLists <- MCFirstLists
  MaxLines = 2
PROPERTY EditsWereSent
CHECK_DEADLOCK FALSE

SPECIFICATION Spec
CONSTANTS
  Fd = {f1, f2}
  Channel = {"#a", "#b"}
  BadChannel = "bad"
  Token <- MCToken
  ValidNick <- MCValidNick
  ValidKey = {"key"}
  Reserved = {"ircbot"}
  Fold <- MCFold
  Truncate <- MCTruncate
  LimitOf <- MCLimitOf
  Star = "*"
  Empty = ""
  Password = "pw"
  Passwords = {"pw", "wrong"}
  Topics = {"hello", ""}
  MaxClients = 2
  JoinLists <- MCJoinLists
  PartLists <- MCPartLists
  ModeStrings <- MCModeStrings
SYMMETRY Symmetry
INVARIANTS
  IInv
  NickUnique
  PasswordChecked
  NoStaleReference
  ChannelLivesWithMembers
  ViewsAgree
  NeverConfused
PROPERTIES
  OplessIsFrozen
  SessionsAreSafe

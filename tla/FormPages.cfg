SPECIFICATION Spec
CONSTANTS
  t1 = t1
  t2 = t2
  Tabs <- MCTabs
  Puts = {s1, s2}
  None = None
  Layouts <- MCLayouts
  SettingKeys = {"sms", "whitelist"}
  Answers = {{}, {"sms", "whitelist"}}
  MaxEdits = 1
INVARIANTS
  TypeOK
  NothingComesBack
  UntouchedSettings
  WhitelistShown
  SavedMeansStored
SYMMETRY Symmetry
VIEW MCView

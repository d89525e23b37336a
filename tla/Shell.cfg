SPECIFICATION FairSpec
CONSTANTS
  Procs = {sh, p, q}
  sh = sh
  NoDir = NoDir
  Dirs <- SomeDirs
  path_dirs <- SearchPath
INVARIANTS TypeOK OneReader NoZombieAtPrompt SearchRight
PROPERTIES PromptsAgain
CHECK_DEADLOCK FALSE

CONSTANTS
  Threads = {render, t1}
  Render = render
  NoThread = NoThread
  Cooldown = 2
  SleepingTitle = TRUE
SPECIFICATION MenuFairSpec
INVARIANT GivenBack
PROPERTY ReleaseCloses
PROPERTY RequestServed

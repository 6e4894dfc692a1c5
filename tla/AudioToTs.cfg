\* Two connections, one after the other or both dropped while listened to;
\* up to two sends per connection waiting on the executor; the capture
\* device may go away at any time and the interval's timer may fail.
CONSTANTS
  Cons = {c1, c2}
  MaxSpawned = 2
  TimerErrors = TRUE

SPECIFICATION A2tSpec
INVARIANT DeviceFollowsPlaying
 

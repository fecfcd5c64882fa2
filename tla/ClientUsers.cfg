SPECIFICATION ClientLiveSpec
CONSTANTS
  u1 = u1
  u2 = u2
  Users = {u1, u2}
  Owner = u1
  NoUser = NoUser
  Nobody = Nobody
INVARIANT ListsSound
PROPERTY StableWhileIterated
PROPERTY UsersProgress

SPECIFICATION LiveSpec
CONSTANTS
    Conns = {c1, c2}
    Users = {u1, u2}
    NoUser = NoUser
    Channels = {ch1}
    Roles = {r1}
    Vanishing = {c1}
INVARIANTS TypeOK ChannelsIndexed UsersIndexed
PROPERTIES ImplementsIdeal VanishedIsDropped

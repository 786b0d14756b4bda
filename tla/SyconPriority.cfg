SPECIFICATION SessionSpec
CONSTANTS
    Notifier = {n1, n2}
    Worker = {w1, w2}
    NoThread = NoThread
PROPERTY
    NotificationsFirst
